---- MODULE Spec2Model ----
(***************************************************************************)
(* Model of the inference-orchestration layer of the AI job tracker:       *)
(*   - backend/services/langchain-matcher.js  (resume/job matching)        *)
(*   - backend/services/langgraph-assistant.js (intent routing graph)      *)
(*   - backend/routes/assistant.js            (chat route, history map)    *)
(*                                                                         *)
(* Texts are sequences of strings.  Where the code looks inside a text     *)
(* (toLowerCase, includes, trim) the text is a sequence of one-character   *)
(* strings; where the code only passes a text on, it is a one-element      *)
(* sequence holding the whole text.                                        *)
(***************************************************************************)
EXTENDS Integers, Sequences, FiniteSets, TLC

(***************************************************************************)
(* Bounds of the model.                                                    *)
(***************************************************************************)
MaxJobs == 2
MaxChats == 12
MaxSharedChats == 2
MaxInFlight == 2
MaxCalls == 2
MaxApplications == 2
MaxTimeline == 2

(***************************************************************************)
(* JavaScript numbers.  A number is n/d with d in {1, 2}, or NaN.          *)
(* Other JavaScript values that can stand where a number is expected       *)
(* (a JSON string, null, a missing property) share the record shape.       *)
(***************************************************************************)
Num(n) == [k |-> "number", n |-> n, d |-> 1, s |-> <<>>, a |-> <<>>]
Half(n) == [k |-> "number", n |-> n, d |-> 2, s |-> <<>>, a |-> <<>>]
NaN == [k |-> "NaN", n |-> 0, d |-> 1, s |-> <<>>, a |-> <<>>]
Undefined == [k |-> "undefined", n |-> 0, d |-> 1, s |-> <<>>, a |-> <<>>]
Null == [k |-> "null", n |-> 0, d |-> 1, s |-> <<>>, a |-> <<>>]
Bool(b) == [k |-> "boolean", n |-> IF b THEN 1 ELSE 0, d |-> 1, s |-> <<>>, a |-> <<>>]
\* a string, as the sequence of its pieces; the empty string is Str(<<>>)
Str(s) == [k |-> "string", n |-> 0, d |-> 1, s |-> s, a |-> <<>>]
\* an array of texts
Arr(a) == [k |-> "array", n |-> 0, d |-> 1, s |-> <<>>, a |-> a]

IsNumber(v) == v.k = "number"
IsInteger(v) == v.k = "number" /\ v.d = 1

\* ToNumber of the values above; the strings of the model are not numeric,
\* so a non-empty string (and an array holding texts) converts to NaN.
ToNumber(v) ==
    CASE v.k = "number" -> v
      [] v.k = "boolean" -> Num(v.n)
      [] v.k = "null" -> Num(0)
      [] v.k = "string" -> IF v.s = <<>> THEN Num(0) ELSE NaN
      [] v.k = "array" -> IF v.a = <<>> THEN Num(0) ELSE NaN
      [] OTHER -> NaN

\* ToBoolean: undefined, null, 0, NaN and "" are falsy.
Truthy(v) ==
    CASE v.k = "number" -> v.n # 0
      [] v.k = "boolean" -> v.n # 0
      [] v.k = "string" -> v.s # <<>>
      [] v.k = "array" -> TRUE
      [] OTHER -> FALSE

\* a || b
OrElse(a, b) == IF Truthy(a) THEN a ELSE b

\* a <= b for numbers n/d
NumLeq(a, b) == a.n * b.d <= b.n * a.d

\* Math.max(a, b) and Math.min(a, b): NaN if either argument converts to NaN.
MathMax(a, b) ==
    LET x == ToNumber(a)
        y == ToNumber(b)
    IN  IF x.k = "NaN" \/ y.k = "NaN" THEN NaN
        ELSE IF NumLeq(x, y) THEN y ELSE x

MathMin(a, b) ==
    LET x == ToNumber(a)
        y == ToNumber(b)
    IN  IF x.k = "NaN" \/ y.k = "NaN" THEN NaN
        ELSE IF NumLeq(x, y) THEN x ELSE y

(***************************************************************************)
(* Texts: String.prototype.toLowerCase and String.prototype.includes.      *)
(***************************************************************************)
LowerOf(c) ==
    CASE c = "A" -> "a" [] c = "B" -> "b" [] c = "C" -> "c" [] c = "D" -> "d" [] c = "E" -> "e" [] c = "F" -> "f"
      [] c = "G" -> "g" [] c = "H" -> "h" [] c = "I" -> "i" [] c = "J" -> "j"
      [] c = "L" -> "l" [] c = "N" -> "n" [] c = "O" -> "o" [] c = "P" -> "p"
      [] c = "Q" -> "q" [] c = "R" -> "r" [] c = "S" -> "s" [] c = "T" -> "t"
      [] c = "U" -> "u" [] c = "V" -> "v"
      [] OTHER -> c

toLowerCase(t) == [i \in 1..Len(t) |-> LowerOf(t[i])]

includes(hay, needle) ==
    \E i \in 0..(Len(hay) - Len(needle)) :
        SubSeq(hay, i + 1, i + Len(needle)) = needle

(***************************************************************************)
(* Inputs of the matcher: resume texts, jobs, and what the providers can   *)
(* answer.                                                                 *)
(***************************************************************************)
ResumeTexts == { <<"j", "s", " ", "D", "e", "v">>, <<"G", "O">>, <<>> }

SkillJS == <<"J", "S">>
SkillGo == <<"g", "o">>
SkillSQL == <<"S", "Q", "L">>

TitleDev == <<"d", "e", "v">>
TitleQA == <<"Q", "A">>

\* Well-formed jobs: an id, a title and a skills list (possibly empty).
\* company, description, jobType, workMode and location only flow into the
\* text handed to the embedding provider and into the prompt.
Jobs ==
    { [id |-> "1", title |-> TitleDev, skills |-> <<SkillJS, SkillGo, SkillSQL>>],
      [id |-> "2", title |-> TitleQA, skills |-> <<SkillGo>>],
      [id |-> "3", title |-> TitleDev, skills |-> <<>>],
      [id |-> "1", title |-> TitleQA, skills |-> <<SkillSQL, SkillJS>>] }

\* Embedding vectors the provider can return (one dimensionality).
Vectors == { <<0, 0>>, <<1, 0>>, <<0 - 1, 0>>, <<1, 1>>, <<0, 1>> }

\* Messages of provider failures (timeout, quota, network).
ProviderErrors == { "Request timed out" }

\* A batch runs one task per job; its tasks draw the resume, the jobs and
\* the provider's answers from these smaller sets.
BatchResumeTexts == { <<"j", "s", " ", "D", "e", "v">> }
BatchJobs == { job \in Jobs : job.id \in {"1", "3"} /\ job.title = TitleDev }
BatchVectors == { <<1, 1>> }

\* A run of several calls in a row (the cache outlives a call) makes
\* single-job calls and draws from these sets: two jobs share an id.
RepeatResumeTexts == { <<"j", "s", " ", "D", "e", "v">>, <<"G", "O">> }
RepeatJobs == { job \in Jobs : job.id \in {"1", "2"} }
RepeatVectors == { <<1, 0>>, <<1, 1>> }

\* Malformed jobs a caller can pass: one without a skills list, one without
\* a title.  The job without a title is passed in fast mode only: in
\* detailed mode its title goes into the prompt template (line 132), whose
\* treatment of an undefined value is the library's.
JobWithoutSkills == [id |-> "4", title |-> TitleDev]
JobWithoutTitle == [id |-> "5", skills |-> <<SkillJS>>]
MalformedJobs == { JobWithoutSkills, JobWithoutTitle }

\* POST /match-all matches the jobs of the job store, whose ids are all
\* different, against the resume of the user, in any order of the store.
MatchAllJobs == { job \in Jobs : job.title = TitleDev \/ job.id = "2" }
MatchAllVectors == RepeatVectors

(***************************************************************************)
(* cosineSimilarity: the quotient dot / (|a| * |b|) is kept exact as the   *)
(* pair (dot, |a|^2 * |b|^2); it is 0/0 = NaN when a magnitude is zero.    *)
(***************************************************************************)
RECURSIVE SumProd(_, _, _)
SumProd(vecA, vecB, i) ==
    IF i = 0 THEN 0 ELSE SumProd(vecA, vecB, i - 1) + vecA[i] * vecB[i]

cosineSimilarity(vecA, vecB) ==
    LET dotProduct == SumProd(vecA, vecB, Len(vecA))
        magnitudeA2 == SumProd(vecA, vecA, Len(vecA))
        magnitudeB2 == SumProd(vecB, vecB, Len(vecB))
    IN  [dot |-> dotProduct, sq |-> magnitudeA2 * magnitudeB2]

SimIsNaN(sim) == sim.sq = 0

\* a * sqrt(N) <= b, for integers a, b and N >= 0
RootLeq(a, N, b) ==
    CASE a <= 0 /\ b >= 0 -> TRUE
      [] a > 0 /\ b < 0 -> FALSE
      [] a >= 0 /\ b >= 0 -> a * a * N <= b * b
      [] OTHER -> a * a * N >= b * b

\* Math.round(similarity * 100): the integer s with s - 1/2 <= x < s + 1/2
RoundSim100(sim) ==
    IF SimIsNaN(sim) THEN NaN
    ELSE Num(CHOOSE s \in (0 - 100)..100 :
                /\ RootLeq(2 * s - 1, sim.sq, 200 * sim.dot)
                /\ ~RootLeq(2 * s + 1, sim.sq, 200 * sim.dot))

(***************************************************************************)
(* extractSkillMatches and calculateSimpleMatch                            *)
(***************************************************************************)
extractSkillMatches(resumeText, jobSkills) ==
    LET resumeLower == toLowerCase(resumeText)
        Keep(skill) == includes(resumeLower, toLowerCase(skill))
    IN  SelectSeq(jobSkills, Keep)

\* Math.round(m / n * 60 + t); 0 / 0 is NaN
RoundRatio60(m, n, t) ==
    IF n = 0 THEN NaN ELSE Num(((120 * m + n) \div (2 * n)) + t)

calculateSimpleMatch(resumeText, job) ==
    LET resumeLower == toLowerCase(resumeText)
        Keep(skill) == includes(resumeLower, toLowerCase(skill))
        matchedSkills == SelectSeq(job.skills, Keep)
        titleMatch == IF includes(resumeLower, toLowerCase(job.title)) THEN 20 ELSE 0
    IN  MathMin(Num(100), RoundRatio60(Len(matchedSkills), Len(job.skills), titleMatch))

(***************************************************************************)
(* Model replies.  The content of a reply is a sequence of tokens: the     *)
(* code-fence markers (three backticks followed by json, and three         *)
(* backticks alone), a newline, a space, a complete JSON                    *)
(* text (with the document it decodes to), or other prose.                 *)
(***************************************************************************)
NoDoc == [type |-> "none", obj |-> [none |-> Undefined]]
FenceJson == [tok |-> "fence_json", doc |-> NoDoc]
Fence == [tok |-> "fence", doc |-> NoDoc]
NL == [tok |-> "\n", doc |-> NoDoc]
SP == [tok |-> " ", doc |-> NoDoc]
Prose == [tok |-> "prose", doc |-> NoDoc]
JsonObject(obj) == [tok |-> "json", doc |-> [type |-> "object", obj |-> obj]]
JsonNull == [tok |-> "json", doc |-> [type |-> "null", obj |-> [none |-> Undefined]]]

\* content.replace(/<marker>\n?/g, ''): drops every marker token and a
\* newline that directly follows it
RECURSIVE replaceMarker(_, _)
replaceMarker(content, marker) ==
    IF content = <<>> THEN <<>>
    ELSE IF Head(content).tok = marker
         THEN IF Len(content) >= 2 /\ content[2].tok = "\n"
              THEN replaceMarker(Tail(Tail(content)), marker)
              ELSE replaceMarker(Tail(content), marker)
         ELSE <<Head(content)>> \o replaceMarker(Tail(content), marker)

IsSpace(t) == t.tok \in {"\n", " "}

RECURSIVE trimStart(_)
trimStart(content) ==
    IF content # <<>> /\ IsSpace(Head(content)) THEN trimStart(Tail(content))
    ELSE content

RECURSIVE trimEnd(_)
trimEnd(content) ==
    IF content # <<>> /\ IsSpace(content[Len(content)])
    THEN trimEnd(SubSeq(content, 1, Len(content) - 1))
    ELSE content

trim(content) == trimEnd(trimStart(content))

\* response.content.replace(/<fence>json\n?/g, '').replace(/<fence>\n?/g, '').trim()
stripFences(content) ==
    trim(replaceMarker(replaceMarker(content, "fence_json"), "fence"))

\* JSON.parse succeeds exactly on one complete JSON text
JsonDecodable(text) == Len(text) = 1 /\ text[1].tok = "json"
JsonParse(text) == text[1].doc

\* obj.key, undefined when the property is missing
Get(obj, key) == IF key \in DOMAIN obj THEN obj[key] ELSE Undefined

(***************************************************************************)
(* What the explanation model can reply in detailed mode.                  *)
(***************************************************************************)
FullAnalysis(adjusted) ==
    [matchingSkills |-> Arr(<<SkillJS>>),
     relevantExperience |-> Str(<<"Three years of JS">>),
     keywordAlignment |-> Str(<<"Strong overlap">>),
     adjustedScore |-> adjusted,
     reasoning |-> Str(<<"Good fit">>)]

SparseAnalysis == [reasoning |-> Str(<<"Good fit">>)]

LLMContents ==
    { <<JsonObject(FullAnalysis(Num(85)))>>,
      <<FenceJson, NL, JsonObject(FullAnalysis(Num(150))), NL, Fence>>,
      <<JsonObject(FullAnalysis(Num(0)))>>,
      <<JsonObject(FullAnalysis(Num(0 - 20))), NL>>,
      <<JsonObject(FullAnalysis(Half(171)))>>,
      <<JsonObject(FullAnalysis(Str(<<"high">>)))>>,
      <<JsonObject(SparseAnalysis)>>,
      <<JsonNull>>,
      <<Prose, SP, JsonObject(FullAnalysis(Num(85)))>> }

BatchLLMContents ==
    { <<JsonObject(FullAnalysis(Num(85)))>>,
      <<Prose, SP, JsonObject(FullAnalysis(Num(85)))>> }

(***************************************************************************)
(* State of the matcher (langchain-matcher.js).                            *)
(***************************************************************************)
VARIABLES
    mphase,          \* "idle", "running" or "returned": the matcher call
    call,            \* the call in progress: entry point and arguments
    embeddingCache,  \* the module-level Map: cache key -> vector
    task,            \* per job of the call: position inside matchResumeToJob
    matches,         \* Promise.all's values: <<>> until the entry is filled
    settleOrder,     \* the jobs (by position) in the order their promises settled
    trace,           \* per job of the call: what its task did with the cache
                     \* and the providers, in order
    returned,        \* what the call returned to its caller
    calls,           \* the number of calls made so far
    workload         \* the calls of the run: how many, and from which inputs

matcherVars ==
    <<mphase, call, embeddingCache, task, matches, settleOrder, trace, returned,
      calls, workload>>

\* One call with the full inputs (a batch of up to MaxJobs jobs or a single
\* job), or up to MaxCalls single-job calls in a row with the smaller inputs.
Workloads ==
    { [calls |-> 1, repeat |-> FALSE], [calls |-> MaxCalls, repeat |-> TRUE] }

\* the steps of a task: getEmbedding finds the key in the cache and returns
\* the stored vector (hit); embeddings.embedQuery is called for a missing key
\* (embedQuery); its answer is stored under the key and returned (store);
\* chain.invoke is called (invoke) and answers with a content (reply)
CacheHit(key, vector) ==
    [op |-> "hit", key |-> key, vector |-> vector, content |-> <<>>]
EmbedQueryCall(key) ==
    [op |-> "embedQuery", key |-> key, vector |-> <<>>, content |-> <<>>]
CacheStore(key, vector) ==
    [op |-> "store", key |-> key, vector |-> vector, content |-> <<>>]
InvokeCall == [op |-> "invoke", key |-> <<>>, vector |-> <<>>, content |-> <<>>]
InvokeReply(content) ==
    [op |-> "reply", key |-> <<>>, vector |-> <<>>, content |-> content]

NoCall == [kind |-> "none", resumeText |-> <<>>, jobs |-> <<>>, skipExplanation |-> FALSE]
NoSim == [dot |-> 0, sq |-> 0]

\* the first 100 characters of a text
substring100(text) == SubSeq(text, 1, IF Len(text) < 100 THEN Len(text) ELSE 100)

ResumeKey(resumeText) == <<"resume_">> \o substring100(resumeText)
JobKey(job) == <<"job_", job.id>>

DecimalString(n) ==
    CASE n = 0 -> "0" [] n = 1 -> "1" [] n = 2 -> "2" [] n = 3 -> "3"
      [] n = 4 -> "4" [] n = 5 -> "5" [] n = 6 -> "6" [] n = 7 -> "7"
      [] n = 8 -> "8" [] OTHER -> "9"

\* the object returned on the skipExplanation branch
FastResult(resumeText, job, similarity) ==
    LET baseScore == RoundSim100(similarity)
        matched == extractSkillMatches(resumeText, job.skills)
    IN  [score |-> baseScore,
         explanation |->
            [matchingSkills |-> Arr(matched),
             relevantExperience |-> Str(<<"Quick match based on semantic similarity">>),
             keywordAlignment |-> Str(<<DecimalString(Len(matched)), " of ",
                                       DecimalString(Len(job.skills)), " skills matched">>),
             reasoning |-> Str(<<"Fast semantic matching">>)],
         metadata |->
            [semanticSimilarity |-> similarity,
             baseScore |-> baseScore,
             fastMode |-> TRUE]]

\* the analysis object after the inner try/catch around JSON.parse
AnalysisOf(resumeText, job, baseScore, content) ==
    LET text == stripFences(content)
    IN  IF JsonDecodable(text) THEN JsonParse(text)
        ELSE [type |-> "object",
              obj |-> [matchingSkills |-> Arr(extractSkillMatches(resumeText, job.skills)),
                       relevantExperience |-> Str(<<"Experience analysis unavailable">>),
                       keywordAlignment |-> Str(<<"Keyword analysis unavailable">>),
                       adjustedScore |-> baseScore,
                       reasoning |-> Str(<<"Automated semantic matching">>)]]

\* reading a property of null throws a TypeError
AnalysisThrows(analysis) == analysis.type = "null"
TypeErrorMessage == "Cannot read properties of null (reading 'adjustedScore')"

\* the object returned after the explanation call
DetailedResult(resumeText, job, similarity, content) ==
    LET baseScore == RoundSim100(similarity)
        analysis == AnalysisOf(resumeText, job, baseScore, content).obj
        finalScore == OrElse(Get(analysis, "adjustedScore"), baseScore)
    IN  [score |-> MathMin(Num(100), MathMax(Num(0), finalScore)),
         explanation |->
            [matchingSkills |-> OrElse(Get(analysis, "matchingSkills"), Arr(<<>>)),
             relevantExperience |-> OrElse(Get(analysis, "relevantExperience"), Str(<<"Not analyzed">>)),
             keywordAlignment |-> OrElse(Get(analysis, "keywordAlignment"), Str(<<"Not analyzed">>)),
             reasoning |-> OrElse(Get(analysis, "reasoning"), Str(<<"Semantic similarity analysis">>))],
         metadata |->
            [semanticSimilarity |-> similarity,
             baseScore |-> baseScore,
             adjustedScore |-> finalScore]]

\* the object returned by the catch branch
FallbackResult(resumeText, job, message) ==
    [score |-> calculateSimpleMatch(resumeText, job),
     explanation |->
        [matchingSkills |-> Arr(extractSkillMatches(resumeText, job.skills)),
         relevantExperience |-> Str(<<"AI matching temporarily unavailable">>),
         keywordAlignment |-> Str(<<"Basic keyword matching applied">>),
         reasoning |-> Str(<<"Fallback matching due to AI service error">>)],
     metadata |->
        [error |-> message,
         fallbackMode |-> TRUE]]

(***************************************************************************)
(* matchResumeToJob as a task: it suspends at the provider calls           *)
(* (embeddings.embedQuery inside getEmbedding, chain.invoke) and runs      *)
(* without interruption between two suspensions.                           *)
(***************************************************************************)
EmptyMap == [key \in {} |-> <<>>]

\* faulty variant: an entry that is there is not overwritten
MapSetOnce(map, key, value) ==
    [x \in DOMAIN map \cup {key} |-> IF x \in DOMAIN map THEN map[x] ELSE value]

\* Map.prototype.set
MapSet(map, key, value) ==
    [x \in DOMAIN map \cup {key} |-> IF x = key THEN value ELSE map[x]]

\* error is the message of the error the catch branch caught, "" if none
TaskAt(pc, resumeEmbedding, sim) ==
    [pc |-> pc, resumeEmbedding |-> resumeEmbedding, sim |-> sim, error |-> ""]
TaskDone == TaskAt("done", <<>>, NoSim)
TaskCaught(message) == [TaskDone EXCEPT !.error = message]

\* the promise of the task rejected: an error left the catch branch
TaskRejected(message) == [TaskAt("rejected", <<>>, NoSim) EXCEPT !.error = message]
SkillsTypeErrorMessage == "Cannot read properties of undefined (reading 'filter')"
TitleTypeErrorMessage == "Cannot read properties of undefined (reading 'toLowerCase')"

\* line 61: job.skills.join throws a TypeError
JobTextThrows(job) == "skills" \notin DOMAIN job

\* calculateSimpleMatch throws a TypeError: job.skills.filter (line 199),
\* job.title.toLowerCase (line 204); "" if it does not throw
SimpleMatchError(job) ==
    IF "skills" \notin DOMAIN job THEN SkillsTypeErrorMessage
    ELSE IF "title" \notin DOMAIN job THEN TitleTypeErrorMessage
    ELSE ""

\* the catch branch, lines 172-191: the fallback result, or the error of
\* calculateSimpleMatch, which nothing catches
Caught(resumeText, job, message) ==
    IF SimpleMatchError(job) # ""
    THEN [t |-> TaskRejected(SimpleMatchError(job)), m |-> <<>>, log |-> <<>>]
    ELSE [t |-> TaskCaught(message), m |-> <<FallbackResult(resumeText, job, message)>>,
          log |-> <<>>]


\* faulty variant: the skipExplanation branch is not taken
CompareDetailed(resumeText, job, skipExplanation, resumeEmbedding, jobEmbedding) ==
    [t |-> TaskAt("awaitLLM", <<>>, cosineSimilarity(resumeEmbedding, jobEmbedding)),
     m |-> <<>>, log |-> <<InvokeCall>>]

\* lines 71-93 and 128-130: both embeddings are there
Compare(resumeText, job, skipExplanation, resumeEmbedding, jobEmbedding) ==
    LET similarity == cosineSimilarity(resumeEmbedding, jobEmbedding)
    IN  IF skipExplanation
        THEN [t |-> TaskDone, m |-> <<FastResult(resumeText, job, similarity)>>,
              log |-> <<>>]
        ELSE [t |-> TaskAt("awaitLLM", <<>>, similarity), m |-> <<>>,
              log |-> <<InvokeCall>>]

\* faulty variant: getEmbedding asks the provider although the key is cached
EmbedJobNoCache(cache, resumeText, job, skipExplanation, resumeEmbedding) ==
    [t |-> TaskAt("awaitJobEmbedding", resumeEmbedding, NoSim), m |-> <<>>,
     log |-> <<EmbedQueryCall(JobKey(job))>>]

\* line 69: getEmbedding(jobText, job key) against the cache as it is now
EmbedJob(cache, resumeText, job, skipExplanation, resumeEmbedding) ==
    IF JobKey(job) \in DOMAIN cache
    THEN LET r == Compare(resumeText, job, skipExplanation, resumeEmbedding,
                          cache[JobKey(job)])
         IN  [r EXCEPT !.log = <<CacheHit(JobKey(job), cache[JobKey(job)])>> \o @]
    ELSE [t |-> TaskAt("awaitJobEmbedding", resumeEmbedding, NoSim), m |-> <<>>,
          log |-> <<EmbedQueryCall(JobKey(job))>>]

\* line 68: getEmbedding(resumeText, resume key) against the cache as it is now
EmbedResume(cache, resumeText, job, skipExplanation) ==
    IF ResumeKey(resumeText) \in DOMAIN cache
    THEN LET r == EmbedJob(cache, resumeText, job, skipExplanation,
                           cache[ResumeKey(resumeText)])
         IN  [r EXCEPT !.log = <<CacheHit(ResumeKey(resumeText),
                                          cache[ResumeKey(resumeText)])>> \o @]
    ELSE [t |-> TaskAt("awaitResumeEmbedding", <<>>, NoSim), m |-> <<>>,
          log |-> <<EmbedQueryCall(ResumeKey(resumeText))>>]

\* lines 55-68: the job text is built, then the resume embedding is asked for
Start(cache, resumeText, job, skipExplanation) ==
    IF JobTextThrows(job)
    THEN Caught(resumeText, job, "Cannot read properties of undefined (reading 'join')")
    ELSE EmbedResume(cache, resumeText, job, skipExplanation)

\* what the providers can answer to the call in progress
ProviderVectors ==
    IF workload.repeat THEN RepeatVectors
    ELSE IF call.kind = "batchMatchJobs" THEN BatchVectors
    ELSE IF call.kind = "matchAll" THEN MatchAllVectors ELSE Vectors
ProviderContents ==
    IF workload.repeat \/ call.kind = "batchMatchJobs" THEN BatchLLMContents
    ELSE LLMContents

\* faulty variant: the values are collected in the order the promises settle
PromiseAllIndexByCompletion(i, order) == Len(order) + 1

\* Promise.all puts the value of the i-th promise at index i, whatever
\* settled before it
PromiseAllIndex(i, order) == i

\* batchMatchJobs: the async callback spreads the match under jobId
BatchEntry(job, match) == match @@ [jobId |-> job.id]

\* POST /match-all: { jobId: job.id, ...match }
MatchAllEntry(job, match) == match @@ [jobId |-> job.id]

(***************************************************************************)
(* matches.sort((a, b) => b.score - a.score) as the runtime sorts an array *)
(* of fewer than 64 elements: the leading run is found (and reversed if it *)
(* descends), the other elements are inserted by binary search.  A         *)
(* comparator value of NaN counts as 0.  Positions are counted from 0.     *)
(***************************************************************************)
\* the sign of b.score - a.score
ByScoreDescending(a, b) ==
    IF a.score.k # "number" \/ b.score.k # "number" THEN 0
    ELSE IF b.score.n * a.score.d > a.score.n * b.score.d THEN 1
    ELSE IF b.score.n * a.score.d < a.score.n * b.score.d THEN 0 - 1
    ELSE 0

RECURSIVE RunEnd(_, _, _)
RunEnd(arr, idx, isDescending) ==
    IF idx >= Len(arr) THEN idx
    ELSE LET order == ByScoreDescending(arr[idx + 1], arr[idx])
         IN  IF (isDescending /\ order >= 0) \/ (~isDescending /\ order < 0)
             THEN idx
             ELSE RunEnd(arr, idx + 1, isDescending)

ReverseRange(arr, n) ==
    [i \in 1..Len(arr) |-> IF i <= n THEN arr[n + 1 - i] ELSE arr[i]]

\* the array after the leading run was made ascending, and the run's length
CountAndMakeRun(arr) ==
    LET isDescending == ByScoreDescending(arr[2], arr[1]) < 0
        runLength == RunEnd(arr, 2, isDescending)
    IN  [arr |-> IF isDescending THEN ReverseRange(arr, runLength) ELSE arr,
         runLength |-> runLength]

RECURSIVE InsertionPoint(_, _, _, _)
InsertionPoint(arr, pivot, left, right) ==
    IF left >= right THEN left
    ELSE LET mid == left + ((right - left) \div 2)
         IN  IF ByScoreDescending(pivot, arr[mid + 1]) < 0
             THEN InsertionPoint(arr, pivot, left, mid)
             ELSE InsertionPoint(arr, pivot, mid + 1, right)

RECURSIVE BinaryInsertionSort(_, _)
BinaryInsertionSort(arr, start) ==
    IF start >= Len(arr) THEN arr
    ELSE LET pivot == arr[start + 1]
             left == InsertionPoint(arr, pivot, 0, start)
         IN  BinaryInsertionSort(
                 SubSeq(arr, 1, left) \o <<pivot>> \o SubSeq(arr, left + 1, start)
                     \o SubSeq(arr, start + 2, Len(arr)),
                 start + 1)

SortByScore(arr) ==
    IF Len(arr) < 2 THEN arr
    ELSE LET run == CountAndMakeRun(arr)
         IN  BinaryInsertionSort(run.arr, run.runLength)

\* the promise of job i settles with m (nothing happens while m is <<>>)
Settle(i, m) ==
    IF m = <<>> THEN UNCHANGED <<matches, settleOrder>>
    ELSE LET entry == IF call.kind = "batchMatchJobs"
                      THEN BatchEntry(call.jobs[i], m[1])
                      ELSE IF call.kind = "matchAll"
                      THEN MatchAllEntry(call.jobs[i], m[1]) ELSE m[1]
         IN  /\ matches' = [matches EXCEPT ![PromiseAllIndex(i, settleOrder)] = <<entry>>]
             /\ settleOrder' = Append(settleOrder, i)

\* matchResumeToJob(resumeText, job, skipExplanation) or
\* batchMatchJobs(resumeText, jobs) is called: every task runs up to its
\* first suspension
MatchCall ==
    /\ mphase \in {"idle", "returned", "rejected"}
    /\ calls < workload.calls
    /\ \E kind \in {"matchResumeToJob", "batchMatchJobs", "matchAll"},
          resumeText \in ResumeTexts,
          n \in 0..MaxJobs,
          skipExplanation \in BOOLEAN :
        \E jobs \in [1..n -> Jobs \cup MalformedJobs] :
            /\ kind = "matchResumeToJob" => n = 1
            /\ workload.repeat =>
                  /\ kind = "matchResumeToJob"
                  /\ resumeText \in RepeatResumeTexts
                  /\ jobs[1] \in RepeatJobs
            /\ (\E i \in 1..n : jobs[i] = JobWithoutTitle) => skipExplanation
            /\ kind = "matchAll" =>
                  /\ ~workload.repeat
                  /\ skipExplanation
                  /\ resumeText \in BatchResumeTexts
                  /\ \A i \in 1..n : jobs[i] \in MatchAllJobs
                  /\ \A i, j \in 1..n : jobs[i].id = jobs[j].id => i = j
            /\ kind = "batchMatchJobs" =>
                  /\ ~skipExplanation
                  /\ resumeText \in BatchResumeTexts
                  /\ \A i \in 1..n : jobs[i] \in BatchJobs \cup {JobWithoutSkills}
            /\ call' = [kind |-> kind, resumeText |-> resumeText,
                        jobs |-> jobs, skipExplanation |-> skipExplanation]
            /\ task' = [i \in 1..n |->
                          Start(embeddingCache, resumeText, jobs[i], skipExplanation).t]
            /\ matches' = [i \in 1..n |->
                          Start(embeddingCache, resumeText, jobs[i], skipExplanation).m]
            /\ trace' = [i \in 1..n |->
                          Start(embeddingCache, resumeText, jobs[i], skipExplanation).log]
    /\ mphase' = "running"
    /\ settleOrder' = <<>>
    /\ returned' = <<>>
    /\ calls' = calls + 1
    /\ UNCHANGED <<embeddingCache, workload>>

\* embeddings.embedQuery(resumeText) answers: lines 45-47, then line 69 on
ResumeEmbeddingReturn(i) ==
    /\ mphase = "running"
    /\ task[i].pc = "awaitResumeEmbedding"
    /\ \E embedding \in ProviderVectors :
        LET cache == MapSet(embeddingCache, ResumeKey(call.resumeText), embedding)
            r == EmbedJob(cache, call.resumeText, call.jobs[i], call.skipExplanation, embedding)
        IN  /\ embeddingCache' = cache
            /\ task' = [task EXCEPT ![i] = r.t]
            /\ trace' = [trace EXCEPT ![i] =
                  @ \o <<CacheStore(ResumeKey(call.resumeText), embedding)>> \o r.log]
            /\ Settle(i, r.m)
    /\ UNCHANGED <<mphase, call, returned, calls, workload>>

\* embeddings.embedQuery(jobText) answers: lines 45-47, then line 72 on
JobEmbeddingReturn(i) ==
    /\ mphase = "running"
    /\ task[i].pc = "awaitJobEmbedding"
    /\ \E embedding \in ProviderVectors :
        LET r == Compare(call.resumeText, call.jobs[i], call.skipExplanation,
                         task[i].resumeEmbedding, embedding)
        IN  /\ embeddingCache' = MapSet(embeddingCache, JobKey(call.jobs[i]), embedding)
            /\ task' = [task EXCEPT ![i] = r.t]
            /\ trace' = [trace EXCEPT ![i] =
                  @ \o <<CacheStore(JobKey(call.jobs[i]), embedding)>> \o r.log]
            /\ Settle(i, r.m)
    /\ UNCHANGED <<mphase, call, returned, calls, workload>>

\* the key of the getEmbedding call task i is suspended in
AwaitedKey(i) ==
    IF task[i].pc = "awaitResumeEmbedding" THEN ResumeKey(call.resumeText)
    ELSE JobKey(call.jobs[i])

\* faulty variant: a failed call leaves an empty vector under the key
EmbeddingFailCached(i) ==
    /\ mphase = "running"
    /\ task[i].pc \in {"awaitResumeEmbedding", "awaitJobEmbedding"}
    /\ \E message \in ProviderErrors :
        LET r == Caught(call.resumeText, call.jobs[i], message)
        IN  /\ task' = [task EXCEPT ![i] = r.t]
            /\ Settle(i, r.m)
    /\ embeddingCache' = MapSet(embeddingCache, AwaitedKey(i), <<>>)
    /\ UNCHANGED <<mphase, call, trace, returned, calls, workload>>

\* embeddings.embedQuery throws (failure or timeout): the catch branch
EmbeddingFail(i) ==
    /\ mphase = "running"
    /\ task[i].pc \in {"awaitResumeEmbedding", "awaitJobEmbedding"}
    /\ \E message \in ProviderErrors :
        LET r == Caught(call.resumeText, call.jobs[i], message)
        IN  /\ task' = [task EXCEPT ![i] = r.t]
            /\ Settle(i, r.m)
    /\ UNCHANGED <<mphase, call, embeddingCache, trace, returned, calls, workload>>

\* chain.invoke answers: lines 139-171, or the catch branch when reading
\* the decoded analysis throws
LLMReturn(i) ==
    /\ mphase = "running"
    /\ task[i].pc = "awaitLLM"
    /\ \E content \in ProviderContents :
        LET baseScore == RoundSim100(task[i].sim)
            analysis == AnalysisOf(call.resumeText, call.jobs[i], baseScore, content)
            r == IF AnalysisThrows(analysis)
                 THEN Caught(call.resumeText, call.jobs[i], TypeErrorMessage)
                 ELSE [t |-> TaskDone,
                       m |-> <<DetailedResult(call.resumeText, call.jobs[i],
                                              task[i].sim, content)>>,
                       log |-> <<>>]
        IN  /\ task' = [task EXCEPT ![i] = r.t]
            /\ trace' = [trace EXCEPT ![i] = Append(@, InvokeReply(content))]
            /\ Settle(i, r.m)
    /\ UNCHANGED <<mphase, call, embeddingCache, returned, calls, workload>>

\* chain.invoke throws (failure or timeout): the catch branch
LLMFail(i) ==
    /\ mphase = "running"
    /\ task[i].pc = "awaitLLM"
    /\ \E message \in ProviderErrors :
        LET r == Caught(call.resumeText, call.jobs[i], message)
        IN  /\ task' = [task EXCEPT ![i] = r.t]
            /\ Settle(i, r.m)
    /\ UNCHANGED <<mphase, call, embeddingCache, trace, returned, calls, workload>>

\* every promise has settled: the call returns (for batchMatchJobs the
\* array Promise.all resolved to, for POST /match-all that array sorted)
MatchReturn ==
    /\ mphase = "running"
    /\ \A i \in DOMAIN task : task[i].pc = "done"
    /\ returned' = IF call.kind = "matchAll"
                   THEN SortByScore([i \in DOMAIN matches |-> matches[i][1]])
                   ELSE [i \in DOMAIN matches |-> matches[i][1]]
    /\ mphase' = "returned"
    /\ UNCHANGED <<call, embeddingCache, task, matches, settleOrder, trace, calls, workload>>

\* every promise has settled and one of them rejected: the call rejects
\* (Promise.all rejects with the first rejection; the other tasks run on)
MatchReject ==
    /\ mphase = "running"
    /\ \A i \in DOMAIN task : task[i].pc \in {"done", "rejected"}
    /\ \E i \in DOMAIN task : task[i].pc = "rejected"
    /\ returned' = <<>>
    /\ mphase' = "rejected"
    /\ UNCHANGED <<call, embeddingCache, task, matches, settleOrder, trace, calls, workload>>

(***************************************************************************)
(* The assistant graph (langgraph-assistant.js).                           *)
(* Intent names and node names are texts of one-character strings.         *)
(***************************************************************************)
FILTER_UPDATE == <<"f", "i", "l", "t", "e", "r", "_", "u", "p", "d", "a", "t", "e">>
JOB_SEARCH == <<"j", "o", "b", "_", "s", "e", "a", "r", "c", "h">>
HELP == <<"h", "e", "l", "p">>
GENERAL == <<"g", "e", "n", "e", "r", "a", "l">>
DETECT_INTENT == <<"d", "e", "t", "e", "c", "t", "_", "i", "n", "t", "e", "n", "t">>
END == <<"_", "_", "e", "n", "d", "_", "_">>
ERROR == <<"e", "r", "r", "o", "r">>

\* the closed set of intents
Intents == {FILTER_UPDATE, JOB_SEARCH, HELP, GENERAL}

\* String.prototype.trim on a text of characters
IsSpaceChar(c) == c \in {" ", "\n", "\t"}

RECURSIVE trimStartChars(_)
trimStartChars(t) ==
    IF t # <<>> /\ IsSpaceChar(Head(t)) THEN trimStartChars(Tail(t)) ELSE t

RECURSIVE trimEndChars(_)
trimEndChars(t) ==
    IF t # <<>> /\ IsSpaceChar(t[Len(t)])
    THEN trimEndChars(SubSeq(t, 1, Len(t) - 1))
    ELSE t

trimChars(t) == trimEndChars(trimStartChars(t))

\* What the model can reply to the classification prompt.
RawIntentReplies ==
    { FILTER_UPDATE, JOB_SEARCH, HELP, GENERAL,
      <<"H", "E", "L", "P">>,
      <<"H", "e", "l", "p">>,
      <<" ", "h", "e", "l", "p", "\n">>,
      <<"\n", "J", "o", "b", "_", "S", "e", "a", "r", "c", "h", " ", " ">>,
      <<"F", "I", "L", "T", "E", "R", "_", "U", "P", "D", "A", "T", "E", "\n">>,
      <<"\t", "G", "e", "n", "e", "r", "a", "l">>,
      <<>>,
      <<" ", "\n">>,
      ERROR,
      <<"h", "e", "l", "p", ".">>,
      <<"h", "e", " ", "l", "p">>,
      <<"f", "i", "l", "t", "e", "r", " ", "u", "p", "d", "a", "t", "e">>,
      <<"I", "n", "t", "e", "n", "t", ":", " ", "h", "e", "l", "p">>,
      <<"s", "e", "a", "r", "c", "h">> }

\* faulty variant: the reply is normalised but not checked against the four intents
ClassifyIntentUnchecked(content) == toLowerCase(trimChars(content))

\* detectIntent, lines 46-50: the intent stored for a raw reply
ClassifyIntent(content) ==
    LET intent == toLowerCase(trimChars(content))
    IN  IF intent \in {FILTER_UPDATE, JOB_SEARCH, HELP, GENERAL} THEN intent ELSE GENERAL

\* the TypeError of reading a property of a null filterUpdates
FilterTypeErrorMessage == "Cannot read properties of null (reading 'reset')"

\* faulty variant: the case for help is missing
routeByIntentNoHelp(state) ==
    CASE state.intent = FILTER_UPDATE -> FILTER_UPDATE
      [] state.intent = JOB_SEARCH -> JOB_SEARCH
      [] OTHER -> GENERAL

\* routeByIntent
routeByIntent(state) ==
    CASE state.intent = FILTER_UPDATE -> FILTER_UPDATE
      [] state.intent = JOB_SEARCH -> JOB_SEARCH
      [] state.intent = HELP -> HELP
      [] OTHER -> GENERAL

(***************************************************************************)
(* handleFilterUpdate and generateFilterResponse.                          *)
(* A filterUpdates value is a decoded JSON document: null or an object.    *)
(***************************************************************************)
NullDoc == [type |-> "null", obj |-> [none |-> Undefined]]
ObjectDoc(obj) == [type |-> "object", obj |-> obj]

\* { error: 'Could not parse filter request' }
ParseErrorDoc == ObjectDoc([error |-> Str(<<"Could not parse filter request">>)])

ResetMessage ==
    Str(<<"I've cleared all filters for you. You should now see all available jobs.">>)
NotUnderstoodMessage ==
    Str(<<"I couldn't understand that filter request. Try something like 'show remote jobs' or 'high match score only'.">>)
NoChangeMessage ==
    Str(<<"I didn't detect any specific filter changes. What would you like to filter by?">>)

\* Array.prototype.join on an array of texts
RECURSIVE join(_, _)
join(items, separator) ==
    IF items = <<>> THEN <<>>
    ELSE IF Len(items) = 1 THEN items[1]
    ELSE items[1] \o <<separator>> \o join(Tail(items), separator)

\* a value inside a template literal
TemplateString(v) ==
    CASE v.k = "string" -> v.s
      [] v.k = "array" -> join(v.a, ",")
      [] v.k = "boolean" -> IF v.n = 1 THEN <<"true">> ELSE <<"false">>
      [] v.k = "number" -> <<DecimalString(v.n)>>
      [] OTHER -> <<v.k>>

\* faulty variant: the phrase for role is pushed first
FilterPhrasesRoleFirst(obj) ==
    (IF Truthy(Get(obj, "role"))
        THEN << <<"role to ">> \o TemplateString(obj.role) >> ELSE <<>>)
    \o (IF Truthy(Get(obj, "workMode"))
        THEN << <<"work mode to ">> \o TemplateString(obj.workMode) >> ELSE <<>>)
    \o (IF Truthy(Get(obj, "jobType"))
        THEN << <<"job type to ">> \o TemplateString(obj.jobType) >> ELSE <<>>)
    \o (IF Truthy(Get(obj, "matchScore"))
        THEN << <<"match score to ">> \o TemplateString(obj.matchScore) >> ELSE <<>>)
    \o (IF Truthy(Get(obj, "location"))
        THEN << <<"location to ">> \o TemplateString(obj.location) >> ELSE <<>>)
    \o (IF Truthy(Get(obj, "skills"))
        THEN << <<"skills to ">> \o join(obj.skills.a, ", ") >> ELSE <<>>)
    \o (IF Truthy(Get(obj, "datePosted"))
        THEN << <<"date posted to ">> \o TemplateString(obj.datePosted) >> ELSE <<>>)

\* the phrases pushed onto updates, lines 116-123, in the order of the pushes
FilterPhrases(obj) ==
    (IF Truthy(Get(obj, "workMode"))
        THEN << <<"work mode to ">> \o TemplateString(obj.workMode) >> ELSE <<>>)
    \o (IF Truthy(Get(obj, "jobType"))
        THEN << <<"job type to ">> \o TemplateString(obj.jobType) >> ELSE <<>>)
    \o (IF Truthy(Get(obj, "matchScore"))
        THEN << <<"match score to ">> \o TemplateString(obj.matchScore) >> ELSE <<>>)
    \o (IF Truthy(Get(obj, "location"))
        THEN << <<"location to ">> \o TemplateString(obj.location) >> ELSE <<>>)
    \o (IF Truthy(Get(obj, "role"))
        THEN << <<"role to ">> \o TemplateString(obj.role) >> ELSE <<>>)
    \o (IF Truthy(Get(obj, "skills"))
        THEN << <<"skills to ">> \o join(obj.skills.a, ", ") >> ELSE <<>>)
    \o (IF Truthy(Get(obj, "datePosted"))
        THEN << <<"date posted to ">> \o TemplateString(obj.datePosted) >> ELSE <<>>)

\* generateFilterResponse throws a TypeError: a property of null is read, or
\* skills is there but has no join method
FilterResponseThrows(filterUpdates) ==
    \/ filterUpdates.type = "null"
    \/ /\ ~Truthy(Get(filterUpdates.obj, "reset"))
       /\ ~Truthy(Get(filterUpdates.obj, "error"))
       /\ Truthy(Get(filterUpdates.obj, "skills"))
       /\ filterUpdates.obj.skills.k # "array"

\* the message of that TypeError
FilterResponseError(filterUpdates) ==
    IF filterUpdates.type = "null" THEN FilterTypeErrorMessage
    ELSE "filterUpdates.skills.join is not a function"

generateFilterResponse(filterUpdates) ==
    LET obj == filterUpdates.obj
        updates == FilterPhrases(obj)
    IN  IF Truthy(Get(obj, "reset")) THEN ResetMessage
        ELSE IF Truthy(Get(obj, "error")) THEN NotUnderstoodMessage
        ELSE IF Len(updates) = 0 THEN NoChangeMessage
        ELSE Str(<<"I've updated the filters: ">> \o join(updates, ", ")
                 \o <<". The job list should update automatically.">>)

\* faulty variant: the catch block leaves filterUpdates at its initial null
ParseFilterUpdatesEmptyCatch(content) ==
    LET text == stripFences(content)
    IN  IF JsonDecodable(text) THEN JsonParse(text) ELSE NullDoc

\* lines 91-98: the filterUpdates decoded from the reply
ParseFilterUpdates(content) ==
    LET text == stripFences(content)
    IN  IF JsonDecodable(text) THEN JsonParse(text) ELSE ParseErrorDoc

\* What the model can reply to the filter-parsing prompt.
FilterReplies ==
    { <<JsonObject([workMode |-> Str(<<"remote">>)])>>,
      <<FenceJson, NL, JsonObject([jobType |-> Str(<<"full-time">>),
                                   location |-> Str(<<"San Francisco">>)]), NL, Fence>>,
      <<FenceJson, JsonObject([reset |-> Bool(TRUE)]), Fence, NL>>,
      <<JsonObject([datePosted |-> Str(<<"week">>),
                    skills |-> Arr(<< <<"Python">>, <<"JavaScript">> >>),
                    role |-> Str(<<"engineer">>),
                    matchScore |-> Str(<<"high">>)])>>,
      <<SP, JsonObject(EmptyMap), NL>>,
      <<JsonObject([workMode |-> Str(<<>>), role |-> Str(<<"engineer">>),
                    location |-> Str(<<"Berlin">>)])>>,
      <<JsonObject([salary |-> Str(<<"high">>)])>>,
      <<JsonObject([skills |-> Str(<<"Python">>)])>>,
      <<JsonNull>>,
      <<>>,
      <<Prose>>,
      <<Fence, NL, Prose, NL, Fence>>,
      <<JsonObject([workMode |-> Str(<<"remote">>)]), SP, Prose>>,
      <<FenceJson, NL, JsonObject([workMode |-> Str(<<"hybrid">>)]), NL>> }

\* What the model can reply to the guidance prompts (returned verbatim).
GuidanceReplies ==
    { Str(<<"Use the filters to narrow down results.">>), Str(<<>>) }

\* User messages handed to processAssistantMessage.
UserMessages == { "show remote jobs", "hello" }

(***************************************************************************)
(* State of one run of processAssistantMessage.                            *)
(***************************************************************************)
VARIABLES
    gphase,           \* "idle", "detect_intent", "handler" or "returned"
    gstate,           \* the graph state handed from node to node
    visited,          \* the nodes entered by the run, in order
    intentReply,      \* <<content>> of the classification reply, <<>> before
    filterReply,      \* <<content>> of the filter-parsing reply, <<>> before
    assistantResult,  \* what processAssistantMessage returned last
    silent            \* the provider will never answer the call in progress

assistantVars ==
    <<gphase, gstate, visited, intentReply, filterReply, assistantResult, silent>>

\* initialState, lines 274-281 (messages and jobResults are carried along
\* unread and are left out)
InitialState(userMessage) ==
    [userQuery |-> userMessage, intent |-> <<>>,
     filterUpdates |-> NullDoc, response |-> Str(<<>>)]

NoAssistantResult ==
    [response |-> Str(<<>>), intent |-> <<>>, filterUpdates |-> NullDoc, success |-> FALSE]

\* faulty variant: the intent is not taken from the state the graph returned
SuccessResultWithoutIntent(result) ==
    [response |-> result.response, intent |-> <<>>,
     filterUpdates |-> result.filterUpdates, success |-> TRUE]

\* the return value of the try branch, lines 285-290
SuccessResult(result) ==
    [response |-> result.response, intent |-> result.intent,
     filterUpdates |-> result.filterUpdates, success |-> TRUE]

ApologyMessage ==
    Str(<<"I'm having trouble processing that request. Please try again or rephrase your question.">>)

\* faulty variant: the catch branch returns an empty response
ErrorResultEmptyResponse(message) ==
    [response |-> Str(<<>>), intent |-> ERROR,
     filterUpdates |-> NullDoc, success |-> FALSE, error |-> message]

\* the return value of the catch branch, lines 293-299
ErrorResult(message) ==
    [response |-> ApologyMessage, intent |-> ERROR,
     filterUpdates |-> NullDoc, success |-> FALSE, error |-> message]

\* the state returned by each node
detectIntent(state, content) == [state EXCEPT !.intent = ClassifyIntent(content)]

handleFilterUpdate(state, content) ==
    LET filterUpdates == ParseFilterUpdates(content)
    IN  [state EXCEPT !.filterUpdates = filterUpdates,
                      !.response = generateFilterResponse(filterUpdates)]

handleJobSearch(state, content) == [state EXCEPT !.response = content]
handleHelp(state, content) == [state EXCEPT !.response = content]
\* faulty variant: the general handler also fills filterUpdates
handleGeneralWithFilters(state, content) ==
    [state EXCEPT !.response = content, !.filterUpdates = ObjectDoc(EmptyMap)]

handleGeneral(state, content) == [state EXCEPT !.response = content]

\* the node an edge of the compiled graph leads to: the conditional edges
\* after detect_intent, the edges to END after every handler
NextNode(node, state) ==
    IF node = DETECT_INTENT THEN routeByIntent(state) ELSE END

CurrentNode == visited[Len(visited)]

\* processAssistantMessage is called: the graph enters detect_intent, which
\* suspends at its model call
AssistantCall ==
    /\ gphase \in {"idle", "returned"}
    /\ \E userMessage \in UserMessages :
        gstate' = InitialState(userMessage)
    /\ visited' = <<DETECT_INTENT>>
    /\ intentReply' = <<>>
    /\ filterReply' = <<>>
    /\ gphase' = "detect_intent"
    /\ silent' = FALSE
    /\ UNCHANGED assistantResult

\* the classification reply arrives: detect_intent returns, the graph
\* routes, and the handler runs up to its model call
DetectIntentReturn ==
    /\ gphase = "detect_intent"
    /\ ~silent
    /\ \E content \in RawIntentReplies :
        LET state == detectIntent(gstate, content)
        IN  /\ gstate' = state
            /\ visited' = Append(visited, NextNode(DETECT_INTENT, state))
            /\ intentReply' = <<content>>
    /\ gphase' = "handler"
    /\ UNCHANGED <<filterReply, assistantResult, silent>>

\* a model call of the graph throws: assistantGraph.invoke rejects and the
\* catch branch returns
ProviderFail ==
    /\ gphase \in {"detect_intent", "handler"}
    /\ ~silent
    /\ \E message \in ProviderErrors :
        assistantResult' = ErrorResult(message)
    /\ gphase' = "returned"
    /\ UNCHANGED <<gstate, visited, intentReply, filterReply, silent>>

\* the provider stays silent on the call in progress: the llm of the graph
\* is built without a timeout (lines 9-13), so nothing ends the await
ProviderSilent ==
    /\ gphase \in {"detect_intent", "handler"}
    /\ ~silent
    /\ silent' = TRUE
    /\ UNCHANGED <<gphase, gstate, visited, intentReply, filterReply, assistantResult>>

\* a handler's state reaches END and processAssistantMessage returns
Finish(state) ==
    /\ gstate' = state
    /\ visited' = Append(visited, NextNode(CurrentNode, state))
    /\ assistantResult' = SuccessResult(state)
    /\ gphase' = "returned"
    /\ UNCHANGED intentReply

\* the filter-parsing reply arrives
FilterUpdateReturn ==
    /\ gphase = "handler"
    /\ ~silent
    /\ CurrentNode = FILTER_UPDATE
    /\ UNCHANGED silent
    /\ \E content \in FilterReplies :
        /\ filterReply' = <<content>>
        /\ IF FilterResponseThrows(ParseFilterUpdates(content))
           THEN /\ assistantResult' =
                     ErrorResult(FilterResponseError(ParseFilterUpdates(content)))
                /\ gphase' = "returned"
                /\ UNCHANGED <<gstate, visited, intentReply>>
           ELSE Finish(handleFilterUpdate(gstate, content))

\* the guidance replies arrive
JobSearchReturn ==
    /\ gphase = "handler"
    /\ ~silent
    /\ CurrentNode = JOB_SEARCH
    /\ \E content \in GuidanceReplies : Finish(handleJobSearch(gstate, content))
    /\ UNCHANGED <<filterReply, silent>>

HelpReturn ==
    /\ gphase = "handler"
    /\ ~silent
    /\ CurrentNode = HELP
    /\ \E content \in GuidanceReplies : Finish(handleHelp(gstate, content))
    /\ UNCHANGED <<filterReply, silent>>

GeneralReturn ==
    /\ gphase = "handler"
    /\ ~silent
    /\ CurrentNode = GENERAL
    /\ \E content \in GuidanceReplies : Finish(handleGeneral(gstate, content))
    /\ UNCHANGED <<filterReply, silent>>

(***************************************************************************)
(* The chat routes (routes/assistant.js).                                  *)
(* conversationHistories maps a user id to an array; arrays are objects,   *)
(* so the map holds a reference and heap holds the array of a reference.   *)
(* A request holds the reference it read before it suspended.              *)
(***************************************************************************)
VARIABLES
    conversationHistories,  \* user id -> reference (only users with an entry)
    heap,                   \* reference -> array of turns (reachable arrays)
    inflight,               \* chat requests suspended at processAssistantMessage
    sent,                   \* user id -> number of chat requests accepted so far
    load,                   \* the requests of the run: chat requests per
                            \* user id, and how many may be suspended at once
    appended,               \* user id -> turns appended since the last clear
    acting,                 \* the user id of the request handled last
    answered                \* the reply sent in the last step (status 0: none)

chatVars ==
    <<conversationHistories, heap, inflight, sent, load, appended, acting, answered>>

\* user ids authenticateRequest can return
Users == {"user_1", "user_2"}

\* the history is trimmed to this many messages
MaxHistory == 20

\* One long conversation with one request at a time (enough turns for the
\* history to be trimmed), or short conversations of every user with
\* several requests suspended at once.
Loads ==
    { [chats |-> [u \in Users |-> IF u = "user_1" THEN MaxChats ELSE 0], inflight |-> 1],
      [chats |-> [u \in Users |-> MaxSharedChats], inflight |-> MaxInFlight] }

\* the k-th message of a user: every request carries its own text
MessageText(k) == <<"message ", DecimalString(k \div 10), DecimalString(k % 10)>>

\* result.response of processAssistantMessage for a message
ReplyTo(message) == <<"reply to ">> \o message

Turn(role, content) == [role |-> role, content |-> content]

\* the smallest reference not in use
NewRef == CHOOSE r \in 1..(Cardinality(DOMAIN heap) + 1) : r \notin DOMAIN heap

\* arrays no longer reachable from the map or from a request are dropped
Reachable(map, requests) ==
    {map[u] : u \in DOMAIN map} \cup {req.history : req \in requests}
Collect(h, map, requests) == [r \in DOMAIN h \cap Reachable(map, requests) |-> h[r]]

\* the reply of POST /chat for a result of processAssistantMessage, lines
\* 48-53 (a handler that returns a value answers with status 200; the
\* timestamp is left out)
ChatReply(result) ==
    [status |-> 200,
     body |-> [response |-> result.response, intent |-> result.intent,
               filterUpdates |-> result.filterUpdates]]

\* the stored history of a user: conversationHistories.get(userId) || []
StoredHistory(userId) ==
    IF userId \in DOMAIN conversationHistories
    THEN heap[conversationHistories[userId]] ELSE <<>>

\* faulty variant: one message too few is kept
TrimHistoryOdd(history) ==
    IF Len(history) > MaxHistory
    THEN SubSeq(history, Len(history) - MaxHistory + 2, Len(history))
    ELSE history

\* history.splice(0, history.length - 20) when history.length > 20
TrimHistory(history) ==
    IF Len(history) > MaxHistory
    THEN SubSeq(history, Len(history) - MaxHistory + 1, Len(history))
    ELSE history

\* faulty variant: every history is stored under one key
HistoryKeyShared(userId) == "user_1"

\* the key under which POST /chat stores the history, line 46
HistoryKey(userId) == userId

Reply(status, error) == [status |-> status, error |-> error]
NoReply == Reply(0, "")

\* request.body of a POST /chat that does not carry a message to process:
\* no body at all (<<>>), a body without message, and bodies whose message
\* is empty or no string
RejectedBodies ==
    { <<>>,
      <<EmptyMap>>,
      <<[message |-> Str(<<>>)]>>,
      <<[message |-> Num(5)]>>,
      <<[message |-> Null]>> }

\* lines 12-18: destructuring a missing body throws (answered by the catch,
\* lines 54-59); a message that is falsy or no string is refused; NoReply
\* if the request goes on
ChatValidation(body) ==
    IF body = <<>> THEN Reply(500, "Failed to process message")
    ELSE IF ~Truthy(Get(body[1], "message")) \/ Get(body[1], "message").k # "string"
    THEN Reply(400, "Message is required and must be a string")
    ELSE NoReply

\* POST /chat that ends at the validation or in the catch, lines 10-18, 54-59
ChatRefuse(userId, body) ==
    /\ sent[userId] < load.chats[userId]
    /\ ChatValidation(body) # NoReply
    /\ answered' = ChatValidation(body)
    /\ acting' = userId
    /\ UNCHANGED <<conversationHistories, heap, inflight, sent, load, appended>>

\* POST /chat with a valid message, lines 11-27: get or initialise the
\* history, then suspend at processAssistantMessage
ChatStart(userId) ==
    /\ Cardinality(inflight) < load.inflight
    /\ sent[userId] < load.chats[userId]
    /\ LET message == MessageText(sent[userId] + 1)
           fresh == userId \notin DOMAIN conversationHistories
           ref == IF fresh THEN NewRef ELSE conversationHistories[userId]
       IN  /\ conversationHistories' =
                IF fresh THEN MapSet(conversationHistories, userId, ref)
                ELSE conversationHistories
           /\ heap' = IF fresh THEN MapSet(heap, ref, <<>>) ELSE heap
           /\ inflight' = inflight \cup
                {[userId |-> userId, message |-> message, history |-> ref]}
    /\ sent' = [sent EXCEPT ![userId] = @ + 1]
    /\ acting' = userId
    /\ answered' = NoReply
    /\ UNCHANGED <<load, appended>>

\* processAssistantMessage has returned: lines 29-53
ChatFinish(req) ==
    LET response == ReplyTo(req.message)
        pushed == heap[req.history]
                    \o <<Turn("user", req.message), Turn("assistant", response)>>
        history == TrimHistory(pushed)
        map == MapSet(conversationHistories, HistoryKey(req.userId), req.history)
        requests == inflight \ {req}
    IN  /\ req \in inflight
        /\ conversationHistories' = map
        /\ heap' = Collect([heap EXCEPT ![req.history] = history], map, requests)
        /\ inflight' = requests
        /\ appended' = [appended EXCEPT ![req.userId] =
                          @ \o <<Turn("user", req.message), Turn("assistant", response)>>]
        /\ acting' = req.userId
        /\ answered' = Reply(200, "")
        /\ UNCHANGED <<sent, load>>

\* GET /history, lines 64-76
GetHistory(userId) ==
    /\ acting' = userId
    /\ answered' = Reply(200, "")
    /\ UNCHANGED <<conversationHistories, heap, inflight, sent, load, appended>>

\* DELETE /history, lines 79-91
ClearHistory(userId) ==
    LET map == [u \in DOMAIN conversationHistories \ {userId} |-> conversationHistories[u]]
    IN  /\ conversationHistories' = map
        /\ heap' = Collect(heap, map, inflight)
        /\ appended' = [appended EXCEPT ![userId] = <<>>]
        /\ acting' = userId
        /\ answered' = Reply(200, "")
        /\ UNCHANGED <<inflight, sent, load>>

(***************************************************************************)
(* The filter store of the frontend (store/useFilterStore.js) and the       *)
(* assistant panel that feeds it (components/FilterPanel.jsx).              *)
(* Texts the store looks into (role, location, skills) are texts of         *)
(* one-character strings; the enumerated values are whole strings.          *)
(***************************************************************************)
VARIABLES
    filters,       \* the filters object of the store
    lastUpdate,    \* the filterUpdates of the reply handled in the last step
                   \* (NoDoc if the last step handled no reply)
    knownOnly      \* the filters object had every update been applied
                   \* without its unknown keys

filterVars == <<filters, lastUpdate, knownOnly>>

KnownFilterKeys ==
    {"role", "skills", "datePosted", "jobType", "workMode", "location", "matchScore"}

\* the initial filters, lines 5-13 (and resetFilters, lines 26-38)
DefaultFilters ==
    [role |-> Str(<<>>), skills |-> Arr(<<>>), datePosted |-> Str(<<"any">>),
     jobType |-> Str(<<"any">>), workMode |-> Str(<<"any">>),
     location |-> Str(<<>>), matchScore |-> Str(<<"all">>)]

\* { ...a, ...b }
Spread(a, b) ==
    [key \in DOMAIN a \cup DOMAIN b |-> IF key \in DOMAIN b THEN b[key] ELSE a[key]]

\* faulty variant: the update replaces the filters object
updateFiltersReplace(current, partialFilters) == partialFilters

\* updateFilters, lines 16-23
updateFilters(current, partialFilters) == Spread(current, partialFilters)

\* the jobs applyFilters is applied to: age is the whole number of days
\* since postedDate, matchScore may be missing
FilterJobs ==
    << [title |-> <<"D", "e", "v">>, skills |-> <<SkillJS, SkillGo>>, age |-> 0,
        jobType |-> Str(<<"full-time">>), workMode |-> Str(<<"remote">>),
        location |-> <<"B", "e", "r", "l", "i", "n">>, matchScore |-> Num(85)],
       [title |-> <<"Q", "A">>, skills |-> <<SkillSQL>>, age |-> 3,
        jobType |-> Str(<<"contract">>), workMode |-> Str(<<"remote">>),
        location |-> <<"O", "s", "l", "o">>, matchScore |-> Num(55)],
       [title |-> <<"d", "e", "v">>, skills |-> <<>>, age |-> 10,
        jobType |-> Str(<<"full-time">>), workMode |-> Str(<<"onsite">>),
        location |-> <<"b", "e", "r", "l", "i", "n">>, matchScore |-> Undefined],
       [title |-> <<"Q", "A">>, skills |-> <<SkillGo>>, age |-> 40,
        jobType |-> Str(<<"full-time">>), workMode |-> Str(<<"hybrid">>),
        location |-> <<"O", "s", "l", "o">>, matchScore |-> Num(20)] >>

\* the callback of jobs.filter, lines 44-105
KeepsJob(f, job) ==
    /\ ~(Truthy(f.role) /\ ~includes(toLowerCase(job.title), toLowerCase(f.role.s)))
    /\ Len(f.skills.a) > 0 =>
          \E i \in 1..Len(f.skills.a), j \in 1..Len(job.skills) :
              includes(toLowerCase(job.skills[j]), toLowerCase(f.skills.a[i]))
    /\ f.datePosted # Str(<<"any">>) =>
          /\ f.datePosted = Str(<<"24h">>) => job.age <= 1
          /\ f.datePosted = Str(<<"week">>) => job.age <= 7
          /\ f.datePosted = Str(<<"month">>) => job.age <= 30
    /\ ~(f.jobType # Str(<<"any">>) /\ job.jobType # f.jobType)
    /\ ~(f.workMode # Str(<<"any">>) /\ job.workMode # f.workMode)
    /\ ~(Truthy(f.location)
            /\ ~includes(toLowerCase(job.location), toLowerCase(f.location.s)))
    /\ (f.matchScore # Str(<<"all">>) /\ job.matchScore # Undefined) =>
          /\ ~(f.matchScore = Str(<<"high">>) /\ job.matchScore.n < 70)
          /\ ~(f.matchScore = Str(<<"medium">>)
                  /\ (job.matchScore.n < 40 \/ job.matchScore.n >= 70))

\* applyFilters, lines 41-106
applyFilters(f, jobs) ==
    LET Keep(job) == KeepsJob(f, job)
    IN  SelectSeq(jobs, Keep)

\* applyFilters throws a TypeError: toLowerCase of a truthy role or location
\* that is no string, length of a missing skills, some of a skills that is
\* a non-empty string
applyFiltersThrows(f) ==
    \/ Truthy(f.role) /\ f.role.k # "string"
    \/ Truthy(f.location) /\ f.location.k # "string"
    \/ f.skills.k \in {"undefined", "null"}
    \/ f.skills.k = "string" /\ f.skills.s # <<>>

\* The filterUpdates a chat reply can carry: null, the reset signal, the
\* error object, and partial filters with well-typed known keys, some of
\* them with keys the store does not know.
PanelUpdates ==
    { NullDoc,
      ObjectDoc([reset |-> Bool(TRUE)]),
      ParseErrorDoc,
      ObjectDoc([workMode |-> Str(<<"remote">>)]),
      ObjectDoc([role |-> Str(<<"d", "e", "v">>), matchScore |-> Str(<<"high">>)]),
      ObjectDoc([skills |-> Arr(<< <<"g", "o">> >>), datePosted |-> Str(<<"week">>)]),
      ObjectDoc([location |-> Str(<<"b", "e", "r">>), jobType |-> Str(<<"full-time">>)]),
      ObjectDoc([salary |-> Str(<<"high">>)]),
      ObjectDoc([workMode |-> Str(<<"hybrid">>), salary |-> Str(<<"high">>)]),
      ObjectDoc([matchScore |-> Str(<<"medium">>), company |-> Str(<<"Acme">>),
                 role |-> Str(<<>>)]),
      ObjectDoc([filters |-> Str(<<"none">>), skills |-> Arr(<<>>),
                 datePosted |-> Str(<<"any">>)]) }

\* the partial filters without the keys the store does not know
KnownPart(partialFilters) ==
    [key \in DOMAIN partialFilters \cap KnownFilterKeys |-> partialFilters[key]]

\* faulty variant: an error object is applied like partial filters
HandleSendErrorApplied(filterUpdates) ==
    /\ lastUpdate' = filterUpdates
    /\ IF filterUpdates.type = "null" THEN UNCHANGED <<filters, knownOnly>>
       ELSE IF Truthy(Get(filterUpdates.obj, "reset"))
       THEN filters' = DefaultFilters /\ knownOnly' = DefaultFilters
       ELSE /\ filters' = updateFilters(filters, filterUpdates.obj)
            /\ knownOnly' = Spread(knownOnly, KnownPart(filterUpdates.obj))

\* AIAssistant.handleSend after the reply arrived, lines 199-209
HandleSend(filterUpdates) ==
    /\ lastUpdate' = filterUpdates
    /\ IF filterUpdates.type = "null" THEN UNCHANGED <<filters, knownOnly>>
       ELSE IF Truthy(Get(filterUpdates.obj, "reset"))
       THEN filters' = DefaultFilters /\ knownOnly' = DefaultFilters
       ELSE IF ~Truthy(Get(filterUpdates.obj, "error"))
       THEN /\ filters' = updateFilters(filters, filterUpdates.obj)
            /\ knownOnly' = Spread(knownOnly, KnownPart(filterUpdates.obj))
       ELSE UNCHANGED <<filters, knownOnly>>

\* resetFilters, lines 26-38 (the panel's reset button)
ResetFilters ==
    /\ filters' = DefaultFilters
    /\ knownOnly' = DefaultFilters
    /\ lastUpdate' = NoDoc

(***************************************************************************)
(* The applications routes (routes/applications.js).  An application is    *)
(* kept with the fields these handlers read or write after construction:   *)
(* userId, status and timeline; the dates of the application and of its    *)
(* timeline entries are the clock's and are not modelled.                  *)
(***************************************************************************)
VARIABLES
    applications,   \* application id -> application (the Map of line 5)
    created,        \* number of applications created so far (ids are fresh)
    appReply        \* the reply sent in the last step (status 0: none)

applicationVars == <<applications, created, appReply>>

\* what authenticateRequest gives: a user id, or it throws (no session)
NoSession == "none"
Callers == Users \cup {NoSession}

StatusApplied == Str(<<"applied">>)
StatusInterview == Str(<<"interview">>)
StatusOffer == Str(<<"offer">>)
StatusRejected == Str(<<"rejected">>)
StatusHired == Str(<<"hired">>)

\* line 98
validStatuses == {StatusApplied, StatusInterview, StatusOffer, StatusRejected}

JobFields ==
    [jobId |-> Str(<<"1">>), jobTitle |-> Str(<<"Developer">>),
     company |-> Str(<<"Acme">>)]

\* request.body of POST /: absent (<<>>), without the job fields, with them,
\* and with a status of the client's choice
CreateBodies ==
    { <<>>,
      <<[jobId |-> Str(<<"1">>)]>>,
      <<JobFields>>,
      <<JobFields @@ [status |-> StatusInterview]>>,
      <<JobFields @@ [status |-> StatusHired]>> }

\* request.body of PATCH /:id
UpdateBodies ==
    { <<>>,
      <<EmptyMap>>,
      <<[status |-> StatusInterview]>>,
      <<[status |-> StatusOffer, note |-> Str(<<"phone screen">>)]>>,
      <<[status |-> StatusHired]>> }

ApplicationIds == 1..(MaxApplications + 1)

TimelineEntry(status, note) == [status |-> status, note |-> note]

\* line 12: status = 'applied' when the body has no status
StatusOrDefault(body) ==
    IF Get(body, "status") = Undefined THEN StatusApplied ELSE Get(body, "status")

\* lines 106-112
Updated(application, status, note) ==
    [application EXCEPT
        !.status = status,
        !.timeline = Append(@, TimelineEntry(status,
            OrElse(note, Str(<<"Status updated to ">> \o status.s))))]

\* POST /, lines 9-48
CreateApplication(caller, body) ==
    /\ IF caller = NoSession \/ body = <<>>
       THEN /\ appReply' = Reply(401, "Unauthorized")
            /\ applications' = applications
       ELSE IF \/ ~Truthy(Get(body[1], "jobId"))
               \/ ~Truthy(Get(body[1], "jobTitle"))
               \/ ~Truthy(Get(body[1], "company"))
       THEN /\ appReply' = Reply(400, "jobId, jobTitle, and company are required")
            /\ applications' = applications
       ELSE /\ created < MaxApplications
            /\ appReply' = Reply(200, "")
            /\ applications' = applications @@ (created + 1 :>
                   [userId |-> caller,
                    status |-> StatusOrDefault(body[1]),
                    timeline |-> <<TimelineEntry(StatusApplied,
                                      Str(<<"Application submitted">>))>>])
    /\ created' = IF appReply'.status = 200 THEN created + 1 ELSE created

\* PATCH /:id, lines 76-122
UpdateStatus(caller, id, body) ==
    /\ created' = created
    /\ IF caller = NoSession \/ body = <<>>
       THEN /\ appReply' = Reply(401, "Unauthorized")
            /\ applications' = applications
       ELSE IF id \notin DOMAIN applications
       THEN /\ appReply' = Reply(404, "Application not found")
            /\ applications' = applications
       ELSE IF applications[id].userId # caller
       THEN /\ appReply' = Reply(403, "Forbidden")
            /\ applications' = applications
       ELSE IF ~Truthy(Get(body[1], "status"))
       THEN /\ appReply' = Reply(400, "Status is required")
            /\ applications' = applications
       ELSE IF Get(body[1], "status") \notin validStatuses
       THEN /\ appReply' = Reply(400, "Invalid status")
            /\ applications' = applications
       ELSE /\ Len(applications[id].timeline) < MaxTimeline
            /\ appReply' = Reply(200, "")
            /\ applications' = [applications EXCEPT ![id] =
                   Updated(@, Get(body[1], "status"), Get(body[1], "note"))]

\* DELETE /:id, lines 125-150
DeleteApplication(caller, id) ==
    /\ created' = created
    /\ IF caller = NoSession
       THEN /\ appReply' = Reply(401, "Unauthorized")
            /\ applications' = applications
       ELSE IF id \notin DOMAIN applications
       THEN /\ appReply' = Reply(404, "Application not found")
            /\ applications' = applications
       ELSE IF applications[id].userId # caller
       THEN /\ appReply' = Reply(403, "Forbidden")
            /\ applications' = applications
       ELSE /\ appReply' = Reply(200, "")
            /\ applications' =
                   [i \in DOMAIN applications \ {id} |-> applications[i]]

(***************************************************************************)
(* Specifications: one per subsystem; the state of the other subsystems    *)
(* stays as constructed.                                                   *)
(***************************************************************************)
vars == <<matcherVars, assistantVars, chatVars, filterVars, applicationVars>>

Init ==
    /\ mphase = "idle"
    /\ call = NoCall
    /\ embeddingCache = EmptyMap
    /\ task = <<>>
    /\ matches = <<>>
    /\ settleOrder = <<>>
    /\ trace = <<>>
    /\ returned = <<>>
    /\ calls = 0
    /\ workload \in Workloads
    /\ gphase = "idle"
    /\ gstate = InitialState("")
    /\ visited = <<>>
    /\ intentReply = <<>>
    /\ filterReply = <<>>
    /\ assistantResult = NoAssistantResult
    /\ silent = FALSE
    /\ conversationHistories = EmptyMap
    /\ heap = EmptyMap
    /\ inflight = {}
    /\ sent = [u \in Users |-> 0]
    /\ load \in Loads
    /\ appended = [u \in Users |-> <<>>]
    /\ acting = "none"
    /\ answered = NoReply
    /\ filters = DefaultFilters
    /\ lastUpdate = NoDoc
    /\ knownOnly = DefaultFilters
    /\ applications = EmptyMap
    /\ created = 0
    /\ appReply = NoReply

OtherThanMatcher == UNCHANGED <<assistantVars, chatVars, filterVars, applicationVars>>
OtherThanAssistant == UNCHANGED <<matcherVars, chatVars, filterVars, applicationVars>>
OtherThanChat == UNCHANGED <<matcherVars, assistantVars, filterVars, applicationVars>>
OtherThanFilter == UNCHANGED <<matcherVars, assistantVars, chatVars, applicationVars>>
OtherThanApplications == UNCHANGED <<matcherVars, assistantVars, chatVars, filterVars>>

NextMatch ==
    \/ MatchCall /\ OtherThanMatcher
    \/ \E i \in DOMAIN task : ResumeEmbeddingReturn(i) /\ OtherThanMatcher
    \/ \E i \in DOMAIN task : JobEmbeddingReturn(i) /\ OtherThanMatcher
    \/ \E i \in DOMAIN task : EmbeddingFail(i) /\ OtherThanMatcher
    \/ \E i \in DOMAIN task : LLMReturn(i) /\ OtherThanMatcher
    \/ \E i \in DOMAIN task : LLMFail(i) /\ OtherThanMatcher
    \/ MatchReturn /\ OtherThanMatcher
    \/ MatchReject /\ OtherThanMatcher

SpecMatch == Init /\ [][NextMatch]_vars

\* Both clients of the matcher are built with a timeout (lines 13-14 and
\* 20-21): a call that is not answered fails when its timer fires, so a task
\* that waits for a provider is resumed by an answer or by a failure.
SpecMatchLive == SpecMatch /\ WF_vars(NextMatch)

NextAssistant ==
    \/ AssistantCall /\ OtherThanAssistant
    \/ DetectIntentReturn /\ OtherThanAssistant
    \/ ProviderFail /\ OtherThanAssistant
    \/ ProviderSilent /\ OtherThanAssistant
    \/ FilterUpdateReturn /\ OtherThanAssistant
    \/ JobSearchReturn /\ OtherThanAssistant
    \/ HelpReturn /\ OtherThanAssistant
    \/ GeneralReturn /\ OtherThanAssistant

SpecAssistant == Init /\ [][NextAssistant]_vars

\* The event loop runs every continuation that is ready, and a provider
\* that is not silent answers or fails: a step of the graph that can be
\* taken is taken.
SpecAssistantLive == SpecAssistant /\ WF_vars(NextAssistant)

NextChat ==
    \/ \E userId \in Users : ChatStart(userId) /\ OtherThanChat
    \/ \E req \in inflight : ChatFinish(req) /\ OtherThanChat
    \/ \E userId \in Users : GetHistory(userId) /\ OtherThanChat
    \/ \E userId \in Users : ClearHistory(userId) /\ OtherThanChat
    \/ \E userId \in Users, body \in RejectedBodies :
          ChatRefuse(userId, body) /\ OtherThanChat

SpecChat == Init /\ [][NextChat]_vars

NextFilter ==
    \/ \E filterUpdates \in PanelUpdates : HandleSend(filterUpdates) /\ OtherThanFilter
    \/ ResetFilters /\ OtherThanFilter

SpecFilter == Init /\ [][NextFilter]_vars

NextApplications ==
    \/ \E caller \in Callers, body \in CreateBodies :
          CreateApplication(caller, body) /\ OtherThanApplications
    \/ \E caller \in Callers, id \in ApplicationIds, body \in UpdateBodies :
          UpdateStatus(caller, id, body) /\ OtherThanApplications
    \/ \E caller \in Callers, id \in ApplicationIds :
          DeleteApplication(caller, id) /\ OtherThanApplications

SpecApplications == Init /\ [][NextApplications]_vars

(***************************************************************************)
(* Properties of the matcher.                                              *)
(***************************************************************************)
\* the matches settled so far, and the job each belongs to
SettledJobs == {i \in DOMAIN task : task[i].pc = "done"}
MatchOf(i) == matches[i][1]

\* C1: every result of matchResumeToJob (fast mode, detailed mode, fallback
\* path) has a score that is an integer between 0 and 100.
C1_ScoreInRange ==
    \A i \in SettledJobs :
        /\ IsInteger(MatchOf(i).score)
        /\ MatchOf(i).score.n >= 0
        /\ MatchOf(i).score.n <= 100

\* the fallback score as the specification defines it: the skill ratio of an
\* empty skills list is 0
ClaimedFallbackScore(resumeText, job) ==
    LET matched == Len(extractSkillMatches(resumeText, job.skills))
        total == Len(job.skills)
        bonus == IF includes(toLowerCase(resumeText), toLowerCase(job.title))
                 THEN 20 ELSE 0
        rounded == IF total = 0 THEN bonus
                   ELSE ((120 * matched + total) \div (2 * total)) + bonus
    IN  Num(IF rounded > 100 THEN 100 ELSE rounded)

\* C2: when the embedding call or the explanation call fails, the call
\* returns a result flagged as degraded (metadata.fallbackMode in the code),
\* with metadata.error the failure's message, the fixed placeholder texts,
\* and the score min(100, round(skill_ratio * 60 + title_bonus)).
C2_FallbackOnProviderFailure ==
    \A i \in SettledJobs :
        task[i].error \in ProviderErrors =>
            /\ "fallbackMode" \in DOMAIN MatchOf(i).metadata
            /\ MatchOf(i).metadata.fallbackMode = TRUE
            /\ MatchOf(i).metadata.error = task[i].error
            /\ MatchOf(i).explanation.relevantExperience
                  = Str(<<"AI matching temporarily unavailable">>)
            /\ MatchOf(i).explanation.keywordAlignment
                  = Str(<<"Basic keyword matching applied">>)
            /\ MatchOf(i).explanation.reasoning
                  = Str(<<"Fallback matching due to AI service error">>)
            /\ MatchOf(i).score = ClaimedFallbackScore(call.resumeText, call.jobs[i])

\* C5: batchMatchJobs returns a sequence as long as jobs whose i-th element
\* carries the id of the i-th job, whatever the order in which the per-job
\* calls completed and whichever jobs degraded.
C5_BatchOrderPreserved ==
    (mphase = "returned" /\ call.kind = "batchMatchJobs") =>
        /\ Len(returned) = Len(call.jobs)
        /\ \A i \in 1..Len(call.jobs) : returned[i].jobId = call.jobs[i].id

\* a batch of two different jobs returned, the second job settled first and
\* one of the two degraded to the fallback
C5_Witness ==
    /\ mphase = "returned"
    /\ call.kind = "batchMatchJobs"
    /\ Len(call.jobs) = 2
    /\ call.jobs[1].id # call.jobs[2].id
    /\ settleOrder = <<2, 1>>
    /\ "fallbackMode" \in DOMAIN returned[2].metadata
    /\ "fallbackMode" \notin DOMAIN returned[1].metadata

\* C12: for the resume and every well-formed job of the call in progress,
\* calculateSimpleMatch returns an integer score in 0..100; for a job with an
\* empty skills list the score is 20 if the title occurs in the resume
\* (case-insensitively) and 0 otherwise, never NaN.
C12_SimpleMatchInRange ==
    \A i \in { j \in DOMAIN call.jobs : call.jobs[j] \in Jobs } :
        LET score == calculateSimpleMatch(call.resumeText, call.jobs[i])
            titleFound == includes(toLowerCase(call.resumeText),
                                   toLowerCase(call.jobs[i].title))
        IN  /\ score.k # "NaN"
            /\ IsInteger(score) /\ score.n >= 0 /\ score.n <= 100
            /\ call.jobs[i].skills = <<>> =>
                  score = Num(IF titleFound THEN 20 ELSE 0)

\* the vectors getEmbedding has returned to the task of job i, in order
ReturnedVectors(i) ==
    LET Returns(e) == e.op \in {"hit", "store"}
        events == SelectSeq(trace[i], Returns)
    IN  [j \in 1..Len(events) |-> events[j].vector]

\* the steps the task of job i has taken in the current step of the system
NewEvents(i) ==
    IF calls' # calls THEN trace'[i]
    ELSE SubSeq(trace'[i], Len(trace[i]) + 1, Len(trace'[i]))

\* the provider is called once per missing key and never for a cached key:
\* a call is answered by exactly one store under the same key, and a store
\* only ever answers the call just before it
C13_OneCallPerMiss ==
    \A i \in DOMAIN trace :
        \A j \in 1..Len(trace[i]) :
            /\ (trace[i][j].op = "embedQuery" /\ j < Len(trace[i])) =>
                  (trace[i][j + 1].op = "store" /\ trace[i][j + 1].key = trace[i][j].key)
            /\ trace[i][j].op = "store" =>
                  (j > 1 /\ trace[i][j - 1].op = "embedQuery"
                         /\ trace[i][j - 1].key = trace[i][j].key)
            /\ (trace[i][j].op = "embedQuery" /\ j = Len(trace[i])) =>
                  task[i].pc \in {"awaitResumeEmbedding", "awaitJobEmbedding", "done",
                                  "rejected"}

\* the vector getEmbedding returned is the one the task goes on with
C13_ReturnedVectorUsed ==
    \A i \in DOMAIN trace :
        LET v == ReturnedVectors(i)
        IN  /\ task[i].pc = "awaitJobEmbedding" => task[i].resumeEmbedding = v[1]
            /\ task[i].pc = "awaitLLM" => task[i].sim = cosineSimilarity(v[1], v[2])
            /\ (task[i].pc = "done" /\ task[i].error = "" /\ Len(v) = 2) =>
                  MatchOf(i).metadata.semanticSimilarity = cosineSimilarity(v[1], v[2])

\* a cached key is answered from the cache with the stored vector, a call
\* to the provider is made only for a key that is not cached, and the
\* provider's answer is stored under the key
C13_CacheStep ==
    \A i \in DOMAIN trace' :
        \A j \in 1..Len(NewEvents(i)) :
            LET e == NewEvents(i)[j]
            IN  /\ e.op = "hit" =>
                      (e.key \in DOMAIN embeddingCache /\ e.vector = embeddingCache[e.key])
                /\ e.op = "embedQuery" => e.key \notin DOMAIN embeddingCache'
                /\ e.op = "store" =>
                      (e.key \in DOMAIN embeddingCache' /\ embeddingCache'[e.key] = e.vector)

\* C13: getEmbedding(text, key) makes no call to the embedding provider when
\* key is in the cache and returns the stored vector, whatever text is
\* passed; when key is absent it calls the provider exactly once, stores the
\* returned vector under key and returns that vector.
C13_GetEmbedding ==
    /\ [](C13_OneCallPerMiss /\ C13_ReturnedVectorUsed)
    /\ [][C13_CacheStep]_vars

\* a later call found the resume in the cache and the job's id too, although
\* the job cached under that id was another one; and a third key was missing
\* before: the provider was asked for it and its answer stored
C13_Witness ==
    /\ calls = 2
    /\ mphase = "returned"
    /\ Len(trace[1]) = 2
    /\ trace[1][1].op = "hit" /\ trace[1][2].op = "hit"
    /\ trace[1][2].key = JobKey(call.jobs[1])
    /\ call.jobs[1].title = TitleQA /\ call.jobs[1].id = "1"
    /\ embeddingCache[JobKey(call.jobs[1])] = <<1, 0>>
    /\ embeddingCache[ResumeKey(call.resumeText)] = <<1, 1>>
    /\ returned[1].metadata.semanticSimilarity = cosineSimilarity(<<1, 1>>, <<1, 0>>)

\* the value clamped to [0, 100]; a NaN stays a NaN
Clamp(v) ==
    IF ~IsNumber(v) THEN NaN
    ELSE IF NumLeq(v, Num(0)) THEN Num(0)
    ELSE IF NumLeq(Num(100), v) THEN Num(100)
    ELSE v

\* the reply of the explanation model to the task of job i
LastReply(i) == trace[i][Len(trace[i])].content

\* C14: in detailed mode the final score is clamp(adjustedScore, 0, 100)
\* whenever the decoded model object has an adjustedScore that is a number
\* (0 and values outside [0, 100] included), and clamp(baseScore, 0, 100)
\* when adjustedScore is absent or not a number.
C14_ScoreReconciliation ==
    \A i \in SettledJobs :
        (trace[i] # <<>> /\ trace[i][Len(trace[i])].op = "reply" /\ task[i].error = "") =>
            LET text == stripFences(LastReply(i))
                adjusted == IF JsonDecodable(text)
                            THEN Get(JsonParse(text).obj, "adjustedScore")
                            ELSE Undefined
            IN  MatchOf(i).score =
                    IF IsNumber(adjusted) THEN Clamp(adjusted)
                    ELSE Clamp(MatchOf(i).metadata.baseScore)

\* C15: the base score is round(max(0, cosine) * 100): in every result that
\* carries metadata.baseScore it is an integer in 0..100, and a negative
\* cosine similarity gives base score 0 (and score 0 in fast mode).  Stated
\* for the vector pairs whose cosine is a number (no zero vector).
C15_BaseScoreClamped ==
    \A i \in SettledJobs :
        ("baseScore" \in DOMAIN MatchOf(i).metadata
            /\ ~SimIsNaN(MatchOf(i).metadata.semanticSimilarity)) =>
            LET baseScore == MatchOf(i).metadata.baseScore
                similarity == MatchOf(i).metadata.semanticSimilarity
            IN  /\ IsInteger(baseScore) /\ baseScore.n >= 0 /\ baseScore.n <= 100
                /\ similarity.dot < 0 =>
                      /\ baseScore = Num(0)
                      /\ "fastMode" \in DOMAIN MatchOf(i).metadata =>
                            MatchOf(i).score = Num(0)

\* every component of the vector is zero
IsZeroVector(vec) == \A j \in 1..Len(vec) : vec[j] = 0

\* C16: for the two vectors a task hands to cosineSimilarity, the result is
\* a number (never NaN, never an infinity), and it is 0 whenever one of the
\* two has magnitude zero.
C16_CosineOfZeroVector ==
    \A i \in DOMAIN trace :
        Len(ReturnedVectors(i)) = 2 =>
            LET vecA == ReturnedVectors(i)[1]
                vecB == ReturnedVectors(i)[2]
                similarity == cosineSimilarity(vecA, vecB)
            IN  /\ ~SimIsNaN(similarity)
                /\ (IsZeroVector(vecA) \/ IsZeroVector(vecB)) => similarity.dot = 0

(***************************************************************************)
(* Properties of the assistant graph.                                      *)
(***************************************************************************)
\* the classification reply after trim and lower-casing
NormalisedReply == toLowerCase(trimChars(intentReply[1]))

\* C3: for every raw classification reply, detectIntent stores an intent of
\* the closed set; a reply that after trim and lower-casing is none of the
\* four is coerced to general (and one that is, is kept).
C3_IntentClosed ==
    intentReply # <<>> =>
        /\ gstate.intent \in Intents
        /\ NormalisedReply \notin Intents => gstate.intent = GENERAL
        /\ NormalisedReply \in Intents => gstate.intent = NormalisedReply

\* an unknown label was coerced to general
C3_Witness ==
    /\ gphase = "handler"
    /\ intentReply = << ERROR >>
    /\ gstate.intent = GENERAL

\* C4 as stated: every AssistantResult returned, on the success path and on
\* the path where a call or a handler throws, has an intent of the closed set.
C4_ResultIntentClosed ==
    gphase = "returned" => assistantResult.intent \in Intents

\* C4 amended: the intent of a returned AssistantResult is in the closed set
\* on the success path, and is the fixed value error on the catch path.
C4_ResultIntentClosedOrError ==
    gphase = "returned" =>
        /\ assistantResult.success => assistantResult.intent \in Intents
        /\ ~assistantResult.success => assistantResult.intent = ERROR

\* a run returned on the catch path after its handler's call failed
C4_Witness ==
    /\ gphase = "returned"
    /\ ~assistantResult.success
    /\ Len(visited) = 2
    /\ assistantResult.intent = ERROR

\* C6: the nodes of a run are detect_intent, then the one handler named like
\* the classified intent, then END: the node sequence is at every moment a
\* prefix of that, no node follows END, and a run that returns on the
\* success path has visited exactly the three.
C6_OneHopRouting ==
    /\ gphase # "idle" => visited[1] = DETECT_INTENT
    /\ Len(visited) <= 3
    /\ Len(visited) >= 2 => (visited[2] \in Intents /\ visited[2] = gstate.intent)
    /\ Len(visited) = 3 => visited[3] = END
    /\ (gphase = "returned" /\ assistantResult.success) => Len(visited) = 3
    /\ gphase = "handler" => Len(visited) = 2

\* a run went detect_intent, help, END
C6_Witness ==
    /\ gphase = "returned"
    /\ assistantResult.success
    /\ visited = <<DETECT_INTENT, HELP, END>>

\* C7: filterUpdates of a returned AssistantResult is non-null only if the
\* intent is filter_update; it is null for job_search, help and general and
\* on the error path.
C7_FilterUpdatesOnlyFromFilterIntent ==
    gphase = "returned" =>
        /\ assistantResult.filterUpdates # NullDoc =>
              (assistantResult.success /\ assistantResult.intent = FILTER_UPDATE)
        /\ assistantResult.intent \in {JOB_SEARCH, HELP, GENERAL} =>
              assistantResult.filterUpdates = NullDoc
        /\ ~assistantResult.success => assistantResult.filterUpdates = NullDoc

\* a general turn returned with null filterUpdates
C7_Witness ==
    /\ gphase = "returned"
    /\ assistantResult.success
    /\ assistantResult.intent = GENERAL
    /\ assistantResult.filterUpdates = NullDoc
    /\ assistantResult.response # Str(<<>>)

\* C8: when the filter-parsing reply is not decodable as JSON after the
\* fence markers are stripped and the text trimmed, handleFilterUpdate does
\* not throw: filterUpdates is {error: "Could not parse filter request"}
\* and the response is the could-not-understand message.
C8_UndecodableFilterReply ==
    (filterReply # <<>> /\ ~JsonDecodable(stripFences(filterReply[1]))) =>
        /\ gphase = "returned"
        /\ visited = <<DETECT_INTENT, FILTER_UPDATE, END>>
        /\ gstate.filterUpdates = ObjectDoc([error |-> Str(<<"Could not parse filter request">>)])
        /\ gstate.response = NotUnderstoodMessage
        /\ assistantResult.success
        /\ assistantResult.filterUpdates = gstate.filterUpdates
        /\ assistantResult.response = NotUnderstoodMessage

\* a fenced reply without JSON inside was answered with the error object
C8_Witness ==
    /\ gphase = "returned"
    /\ filterReply = << <<Fence, NL, Prose, NL, Fence>> >>
    /\ assistantResult.filterUpdates = ParseErrorDoc

\* C11: when a provider call of a chat turn fails (the classification call
\* or the handler's call), processAssistantMessage returns (it does not
\* throw) the fixed apology with filterUpdates null, and POST /chat answers
\* with a normal reply (status 200) carrying that response.
C11_ProviderFailureApology ==
    (gphase = "returned" /\ "error" \in DOMAIN assistantResult
        /\ assistantResult.error \in ProviderErrors) =>
        /\ assistantResult.response = ApologyMessage
        /\ assistantResult.filterUpdates = NullDoc
        /\ ChatReply(assistantResult).status = 200
        /\ ChatReply(assistantResult).body.response = ApologyMessage
        /\ ChatReply(assistantResult).body.filterUpdates = NullDoc

\* the classification call failed and the run returned on the catch path
C11_Witness ==
    /\ gphase = "returned"
    /\ "error" \in DOMAIN assistantResult
    /\ assistantResult.error \in ProviderErrors
    /\ visited = <<DETECT_INTENT>>

\* the words generateFilterResponse uses for a key
KeyLabel(key) ==
    CASE key = "workMode" -> "work mode to "
      [] key = "jobType" -> "job type to "
      [] key = "matchScore" -> "match score to "
      [] key = "location" -> "location to "
      [] key = "role" -> "role to "
      [] key = "skills" -> "skills to "
      [] key = "datePosted" -> "date posted to "

PhraseOf(obj, key) ==
    <<KeyLabel(key)>> \o (IF key = "skills" THEN join(obj.skills.a, ", ")
                          ELSE TemplateString(obj[key]))

\* one phrase per key of keys (in that order) that obj has; with truthyOnly,
\* a key whose value is falsy counts as absent
RECURSIVE PhrasesOf(_, _, _)
PhrasesOf(obj, keys, truthyOnly) ==
    IF keys = <<>> THEN <<>>
    ELSE (IF Head(keys) \in DOMAIN obj /\ (truthyOnly => Truthy(obj[Head(keys)]))
          THEN <<PhraseOf(obj, Head(keys))>> ELSE <<>>)
         \o PhrasesOf(obj, Tail(keys), truthyOnly)

SummaryOf(phrases) ==
    IF phrases = <<>> THEN NoChangeMessage
    ELSE Str(<<"I've updated the filters: ">> \o join(phrases, ", ")
             \o <<". The job list should update automatically.">>)

\* a filter_update turn returned a FilterUpdate that is neither reset nor error
SummarisedUpdate ==
    /\ gphase = "returned"
    /\ assistantResult.success
    /\ assistantResult.intent = FILTER_UPDATE
    /\ assistantResult.filterUpdates.type = "object"
    /\ ~Truthy(Get(assistantResult.filterUpdates.obj, "reset"))
    /\ ~Truthy(Get(assistantResult.filterUpdates.obj, "error"))

C18_MatchCallReturns == (mphase = "running") ~> (mphase \in {"returned", "rejected"})

\* C18 (assistant graph): every call of processAssistantMessage eventually
\* returns a result, whether the provider answers, fails or never answers.
C18_AssistantCallReturns ==
    (gphase \in {"detect_intent", "handler"}) ~> (gphase = "returned")

(***************************************************************************)
(* Properties of the chat routes.                                          *)
(***************************************************************************)
\* the last n elements of a sequence
LastOf(seq, n) ==
    IF Len(seq) <= n THEN seq ELSE SubSeq(seq, Len(seq) - n + 1, Len(seq))

\* C9: the stored history of a conversation has at most 20 turns and equals
\* the last min(20, n) of the n turns appended to it since it was last
\* cleared, in append order.  (Only the completion of a chat request can
\* change either side, so the statement is an invariant.)
C9_HistoryIsLastTwenty ==
    \A userId \in Users :
        /\ Len(StoredHistory(userId)) <= 20
        /\ StoredHistory(userId) = LastOf(appended[userId], 20)

\* C10: a chat request, a history read or a history clear of one user
\* leaves the entry and the stored history of every other user unchanged.
C10_ConversationIsolation ==
    [][\A other \in Users :
          other # acting' =>
              /\ (other \in DOMAIN conversationHistories')
                    = (other \in DOMAIN conversationHistories)
              /\ StoredHistory(other)' = StoredHistory(other)]_vars

\* a request of user_1 has just been handled while user_2 has a stored
\* history and a chat request suspended, and user_1 has a history too
C10_Witness ==
    /\ acting = "user_1"
    /\ StoredHistory("user_1") # <<>>
    /\ StoredHistory("user_2") # <<>>
    /\ \E req \in inflight : req.userId = "user_2"
    /\ \E req \in inflight : req.userId = "user_1"

(***************************************************************************)
(* Clearing a history and concurrent chat requests.                        *)
(***************************************************************************)
\* the turns GET /history returns for a user
ReturnedTurns(userId) ==
    { StoredHistory(userId)[i] : i \in 1..Len(StoredHistory(userId)) }

\* C27: once DELETE /history has completed, no turn appended before it is
\* returned by GET /history again: every turn of the stored history was
\* appended after the last clear, also when a chat request that started
\* before the clear finishes after it.
C27_ClearIsEffective ==
    \A userId \in Users :
        ReturnedTurns(userId) \subseteq
            { appended[userId][i] : i \in 1..Len(appended[userId]) }

\* C28: under any interleaving of chat requests of one conversation the
\* stored history has even length and alternates user, assistant; each
\* assistant turn holds the response computed for the user message stored
\* just before it, also after the history was trimmed to 20.
C28_TurnsArePaired ==
    \A userId \in Users :
        LET history == StoredHistory(userId)
        IN  /\ Len(history) % 2 = 0
            /\ \A i \in 1..Len(history) :
                  IF i % 2 = 1
                  THEN history[i].role = "user"
                  ELSE /\ history[i].role = "assistant"
                       /\ history[i].content = ReplyTo(history[i - 1].content)

\* two chat requests of user_1 were suspended together and the second
\* finished first: its two turns precede the two turns of the first
C28_Witness ==
    /\ Len(StoredHistory("user_1")) = 4
    /\ StoredHistory("user_1")[1] = Turn("user", MessageText(2))
    /\ StoredHistory("user_1")[2] = Turn("assistant", ReplyTo(MessageText(2)))
    /\ StoredHistory("user_1")[3] = Turn("user", MessageText(1))
    /\ StoredHistory("user_1")[4] = Turn("assistant", ReplyTo(MessageText(1)))

\* C29: a POST /chat whose message is missing, empty or not a string is
\* answered with status 400, starts no call of processAssistantMessage and
\* leaves every stored history as it is.
C29_InvalidMessageRefused ==
    [][\A userId \in Users, body \in RejectedBodies :
          ChatRefuse(userId, body) =>
              /\ answered'.status = 400
              /\ inflight' = inflight
              /\ conversationHistories' = conversationHistories
              /\ heap' = heap]_vars

(***************************************************************************)
(* The filterUpdates of a filter_update turn.                              *)
(***************************************************************************)
\* the reply to the filter-parsing prompt decodes, fences stripped, as a
\* JSON object
DecodesAsObject(content) ==
    /\ JsonDecodable(stripFences(content))
    /\ JsonParse(stripFences(content)).type = "object"

\* C25: on the filter_update path, when the model's reply decodes as a JSON
\* object, the filterUpdates of the AssistantResult is that decoded object,
\* with no key added, dropped, renamed or validated.
C25_FilterUpdatesAsDecoded ==
    (gphase = "returned" /\ filterReply # <<>> /\ DecodesAsObject(filterReply[1])) =>
        assistantResult.filterUpdates = JsonParse(stripFences(filterReply[1]))

(***************************************************************************)
(* Malformed jobs.                                                         *)
(***************************************************************************)
\* C24: a structurally malformed job is not absorbed: its matchResumeToJob
\* call never settles with a MatchResult, and the call it is part of
\* (matchResumeToJob itself, or batchMatchJobs over a list that contains it)
\* rejects instead of returning.
C24_MalformedJobRejects ==
    \A i \in DOMAIN task :
        call.jobs[i] \in MalformedJobs =>
            /\ matches[i] = <<>>
            /\ mphase # "returned"

(***************************************************************************)
(* A failing call of the embedding provider.                               *)
(***************************************************************************)
\* task i was suspended in getEmbedding and its provider call fails in the
\* current step of the system
EmbeddingFails(i) ==
    /\ calls' = calls
    /\ task[i].pc \in {"awaitResumeEmbedding", "awaitJobEmbedding"}
    /\ task'[i].pc = "done"
    /\ task'[i].error # ""

\* a failing provider call leaves the cache as it is and reaches the catch
\* branch of the caller with the provider's message; a call that starts when
\* the resume key is not cached asks the provider for it
C23_FailStep ==
    /\ \A i \in DOMAIN task :
          EmbeddingFails(i) =>
              /\ embeddingCache' = embeddingCache
              /\ task'[i].error \in ProviderErrors
              /\ matches'[i][1].metadata.error = task'[i].error
              /\ trace'[i] = trace[i]
    /\ calls' # calls =>
          \A i \in DOMAIN trace' :
              (task'[i].pc # "rejected"
                  /\ ResumeKey(call'.resumeText) \notin DOMAIN embeddingCache) =>
                  trace'[i] = <<EmbedQueryCall(ResumeKey(call'.resumeText))>>

\* a task that ended with a provider error stored nothing after its last
\* call of the provider
C23_NothingStored ==
    \A i \in DOMAIN task :
        (task[i].pc = "done" /\ task[i].error \in ProviderErrors /\ trace[i] # <<>>) =>
            trace[i][Len(trace[i])].op \in {"embedQuery", "invoke"}

\* C23: when the embedding provider call fails inside getEmbedding the error
\* reaches the caller unchanged and the cache is left unchanged: nothing is
\* stored under the key, so a later getEmbedding with a key that is still
\* missing calls the provider again.
C23_EmbeddingFailure ==
    /\ []C23_NothingStored
    /\ [][C23_FailStep]_vars

\* the first call ended without any entry in the cache (the provider failed
\* for the resume key); the second call asks the provider for its resume key
C23_Witness ==
    /\ calls = 2
    /\ mphase = "running"
    /\ embeddingCache = EmptyMap
    /\ trace[1] = <<EmbedQueryCall(ResumeKey(call.resumeText))>>
    /\ task[1].pc = "awaitResumeEmbedding"

(***************************************************************************)
(* Concurrent getEmbedding calls.                                          *)
(***************************************************************************)
\* the vectors stored under key in the current step of the system
StoredNow(key) ==
    { e \in UNION { { NewEvents(i)[j] : j \in 1..Len(NewEvents(i)) } : i \in DOMAIN trace' } :
        e.op = "store" /\ e.key = key }

\* a step that stores under a key leaves the cache with the vector stored
\* for that key; the entry of every other key is what it was
C22_WriteStep ==
    \A key \in DOMAIN embeddingCache \cup DOMAIN embeddingCache' :
        IF StoredNow(key) # {}
        THEN /\ key \in DOMAIN embeddingCache'
             /\ StoredNow(key) = { CacheStore(key, embeddingCache'[key]) }
        ELSE /\ key \in DOMAIN embeddingCache /\ key \in DOMAIN embeddingCache'
             /\ embeddingCache'[key] = embeddingCache[key]

\* the tasks of the call that asked the provider for key
AskedFor(key) ==
    { i \in DOMAIN trace : \E j \in 1..Len(trace[i]) : trace[i][j] = EmbedQueryCall(key) }

\* every task that asked the provider for a key goes on with the vector the
\* provider gave to that task, and when all tasks have finished the cache
\* holds for the key a vector the provider gave to one of them
C22_CallersServed ==
    \A i \in DOMAIN trace :
        LET v == ReturnedVectors(i)
        IN  /\ task[i].pc = "awaitJobEmbedding" => task[i].resumeEmbedding = v[1]
            /\ (task[i].pc = "done" /\ task[i].error = "" /\ Len(v) = 2) =>
                  matches[i][1].metadata.semanticSimilarity = cosineSimilarity(v[1], v[2])
            /\ \A j \in 1..Len(trace[i]) :
                  trace[i][j].op = "store" =>
                      /\ i \in AskedFor(trace[i][j].key)
                      /\ trace[i][j].key \in DOMAIN embeddingCache
                      /\ \E k \in AskedFor(trace[i][j].key) :
                            CacheStore(trace[i][j].key, embeddingCache[trace[i][j].key])
                                \in { trace[k][m] : m \in 1..Len(trace[k]) }

\* C22: when several getEmbedding calls for the same uncached key run
\* concurrently, each may call the provider; the cache then holds for the
\* key one vector, the one written last, every caller goes on with a vector
\* the provider produced for that key, and no other key's entry changes.
C22_ConcurrentSameKey ==
    /\ []C22_CallersServed
    /\ [][C22_WriteStep]_vars

\* two jobs of POST /match-all asked the provider for the same resume key,
\* the first got [1, 0] and the second [1, 1]; the cache holds [1, 1], and
\* the first job's similarity was computed from [1, 0]
C22_Witness ==
    /\ mphase = "returned"
    /\ call.kind = "matchAll"
    /\ Len(call.jobs) = 2
    /\ task[1].error = "" /\ task[2].error = ""
    /\ AskedFor(ResumeKey(call.resumeText)) = {1, 2}
    /\ trace[1][2] = CacheStore(ResumeKey(call.resumeText), <<1, 0>>)
    /\ trace[2][2] = CacheStore(ResumeKey(call.resumeText), <<1, 1>>)
    /\ embeddingCache[ResumeKey(call.resumeText)] = <<1, 1>>
    /\ matches[1][1].metadata.semanticSimilarity
          = cosineSimilarity(<<1, 0>>, ReturnedVectors(1)[2])

(***************************************************************************)
(* POST /match-all.                                                        *)
(***************************************************************************)
\* a >= b as the language compares two scores: false if either is NaN
ScoreGeq(a, b) == a.k = "number" /\ b.k = "number" /\ NumLeq(b, a)

\* C21: POST /match-all matches every job in fast mode (no chat call) and
\* returns one match per job of the list, each jobId once, ordered by
\* non-increasing score, whichever jobs degraded to the fallback.
C21_MatchAllSorted ==
    (mphase = "returned" /\ call.kind = "matchAll") =>
        /\ Len(returned) = Len(call.jobs)
        /\ \A i \in 1..Len(call.jobs) :
              /\ Cardinality({ k \in 1..Len(returned) :
                                 returned[k].jobId = call.jobs[i].id }) = 1
              /\ \A k \in 1..Len(trace[i]) : trace[i][k].op \notin {"invoke", "reply"}
        /\ \A k \in 1..(Len(returned) - 1) :
              ScoreGeq(returned[k].score, returned[k + 1].score)

(***************************************************************************)
(* Fast mode of matchResumeToJob.                                          *)
(***************************************************************************)
\* skill occurs in text as a substring, letter case aside
OccursIn(skill, text) ==
    \E start \in 1..(Len(text) - Len(skill) + 1) :
        toLowerCase(SubSeq(text, start, start + Len(skill) - 1)) = toLowerCase(skill)

RECURSIVE SkillsFound(_, _)
\* the sub-list of skills, in their order, that occur in text
SkillsFound(skills, text) ==
    IF skills = <<>> THEN <<>>
    ELSE (IF OccursIn(Head(skills), text) THEN <<Head(skills)>> ELSE <<>>)
            \o SkillsFound(Tail(skills), text)

\* the provider calls of task i: events of its trace with the operation op
CallsOf(i, op) == { k \in 1..Len(trace[i]) : trace[i][k].op = op }

\* task i of a skipExplanation call got both embeddings and returned
FastReturned(i) ==
    /\ call.skipExplanation
    /\ i \in DOMAIN task
    /\ task[i].pc = "done"
    /\ task[i].error = ""

\* C20: with skipExplanation = true the chat provider is never called and
\* the embedding provider at most twice; when both embeddings arrived the
\* result has score = metadata.baseScore, matchingSkills = the job's skills,
\* in job order, that occur case-insensitively in the resume, and
\* keywordAlignment = "<that count> of <job.skills.length> skills matched".
C20_FastModeLocal ==
    call.skipExplanation =>
        \A i \in DOMAIN trace :
            /\ CallsOf(i, "invoke") = {}
            /\ CallsOf(i, "reply") = {}
            /\ Cardinality(CallsOf(i, "embedQuery")) <= 2
            /\ FastReturned(i) =>
                  LET result == matches[i][1]
                      found == SkillsFound(call.jobs[i].skills, call.resumeText)
                  IN  /\ result.score = result.metadata.baseScore
                      /\ result.metadata.fastMode
                      /\ result.explanation.matchingSkills = Arr(found)
                      /\ result.explanation.keywordAlignment =
                            Str(<<DecimalString(Len(found)), " of ",
                                  DecimalString(Len(call.jobs[i].skills)),
                                  " skills matched">>)

\* a fast call asked the embedding provider twice and returned with one of
\* the job's three skills matched
C20_Witness ==
    /\ mphase = "returned"
    /\ FastReturned(1)
    /\ Cardinality(CallsOf(1, "embedQuery")) = 2
    /\ Len(call.jobs[1].skills) = 3
    /\ returned[1].explanation.matchingSkills = Arr(<<SkillJS>>)

(***************************************************************************)
(* Properties of the filter store.                                         *)
(***************************************************************************)
\* the reply handled in the current step of the system carried null or an
\* error object: the filters are what they were
C26_NothingApplied ==
    (\/ lastUpdate'.type = "null"
     \/ lastUpdate'.type = "object" /\ "error" \in DOMAIN lastUpdate'.obj) =>
        filters' = filters

\* it carried the reset signal: the filters are the seven defaults
C26_ResetApplied ==
    (lastUpdate'.type = "object" /\ Get(lastUpdate'.obj, "reset") = Bool(TRUE)) =>
        filters' = [role |-> Str(<<>>), skills |-> Arr(<<>>), datePosted |-> Str(<<"any">>),
                    jobType |-> Str(<<"any">>), workMode |-> Str(<<"any">>),
                    location |-> Str(<<>>), matchScore |-> Str(<<"all">>)]

\* it carried another object: the keys of the object have the object's
\* values, every other key of the filters is what it was
C26_PartialApplied ==
    (/\ lastUpdate'.type = "object"
     /\ "error" \notin DOMAIN lastUpdate'.obj
     /\ "reset" \notin DOMAIN lastUpdate'.obj) =>
        /\ DOMAIN filters' = DOMAIN filters \cup DOMAIN lastUpdate'.obj
        /\ \A key \in DOMAIN lastUpdate'.obj : filters'[key] = lastUpdate'.obj[key]
        /\ \A key \in DOMAIN filters \ DOMAIN lastUpdate'.obj : filters'[key] = filters[key]

\* C26: the chat client applies the filterUpdates of a reply to the store:
\* null or an error object changes nothing, the reset signal sets the seven
\* filters to their defaults whatever they were, any other object changes
\* exactly the keys it contains.
C26_ClientApplies ==
    [][C26_NothingApplied /\ C26_ResetApplied /\ C26_PartialApplied]_vars

\* the filters were not the defaults (role and matchScore had been set)
\* when a reply with only workMode was applied: role and matchScore are kept
C26_Witness ==
    /\ lastUpdate = ObjectDoc([workMode |-> Str(<<"remote">>)])
    /\ filters.workMode = Str(<<"remote">>)
    /\ filters.role = Str(<<"d", "e", "v">>)
    /\ filters.matchScore = Str(<<"high">>)
    /\ filters.jobType = Str(<<"any">>)

\* the reply handled last carried partial filters with a key the store does
\* not know, and they were applied through updateFilters
UnknownKeyApplied ==
    /\ lastUpdate.type = "object"
    /\ ~Truthy(Get(lastUpdate.obj, "reset"))
    /\ ~Truthy(Get(lastUpdate.obj, "error"))
    /\ DOMAIN lastUpdate.obj \ KnownFilterKeys # {}

\* C19 as stated: after an update with unknown keys went through
\* updateFilters, the filters object has exactly the seven known keys and
\* is the same as with the unknown keys removed, applyFilters gives the same
\* result, and applyFilters does not throw.
C19_UnknownKeysDropped ==
    UnknownKeyApplied =>
        /\ DOMAIN filters = KnownFilterKeys
        /\ filters = knownOnly
        /\ ~applyFiltersThrows(filters)
        /\ applyFilters(filters, FilterJobs) = applyFilters(knownOnly, FilterJobs)

\* C19 amended: updateFilters stores the unknown keys beside the seven known
\* ones; the known keys have the values they have with the unknown keys
\* removed, applyFilters gives the same result, and it does not throw.
C19_UnknownKeysNotRead ==
    /\ KnownFilterKeys \subseteq DOMAIN filters
    /\ [key \in KnownFilterKeys |-> filters[key]] = knownOnly
    /\ ~applyFiltersThrows(filters)
    /\ applyFilters(filters, FilterJobs) = applyFilters(knownOnly, FilterJobs)

\* an update with the unknown key salary was applied: the key is stored,
\* and the filters in force keep only some of the jobs
C19_Witness ==
    /\ UnknownKeyApplied
    /\ "salary" \in DOMAIN filters
    /\ filters.workMode = Str(<<"hybrid">>)
    /\ Len(applyFilters(filters, FilterJobs)) = 1

(***************************************************************************)
(* Properties of the applications routes.                                  *)
(***************************************************************************)
IsPrefix(s, t) == Len(s) <= Len(t) /\ SubSeq(t, 1, Len(s)) = s

StatusMatchesTimeline ==
    \A id \in DOMAIN applications :
        /\ applications[id].status \in validStatuses
        /\ applications[id].status =
               applications[id].timeline[Len(applications[id].timeline)].status

TimelineGrows ==
    \A id \in DOMAIN applications \cap DOMAIN applications' :
        IsPrefix(applications[id].timeline, applications'[id].timeline)

RejectedChangesNothing ==
    appReply'.status \in {400, 403, 404} => applications' = applications

\* C30: every stored application has one of the four statuses, and it is the
\* status of the last entry of its timeline; a timeline only grows; and a
\* request answered 400, 403 or 404 leaves every application as it is.
C30_StatusFollowsTimeline ==
    []StatusMatchesTimeline /\ [][TimelineGrows /\ RejectedChangesNothing]_vars

====
